---- MODULE Spec2Model ----
(***************************************************************************)
(* A model of the pyrsedis client core: the connection pool                *)
(* (src/connection/pool.rs), the standalone, cluster and sentinel routers  *)
(* (src/router), the connection handshake and reader (src/connection),     *)
(* the RESP parsers and encoder (src/resp, src/response.rs), the error     *)
(* kinds (src/error.rs) and the hash slots (src/crc16.rs).                 *)
(*                                                                         *)
(* The specifications share the variables:                                 *)
(*   Spec / FairSpec       tasks that check connections out of one pool    *)
(*   RouterSpec            tasks that run execute / pipeline on the pool   *)
(*   ClusterSpec / ClusterFair   one ClusterRouter::execute call at a time *)
(*   PipeSpec              one ClusterRouter::pipeline call at a time      *)
(*   SentSpec / SentFair   one SentinelRouter::execute call at a time      *)
(*   RoutersSpec           a cluster or a sentinel router                  *)
(*   ConnSpec              opening a connection and its handshake          *)
(*   FnSpec                the pure functions applied to bounded inputs    *)
(*   ReadSpec              read_response / read_raw_response on a stream   *)
(*   PermitSpec            concurrent cluster pipelines and pool permits   *)
(*   FailoverSpec          concurrent SentinelRouter::failover calls       *)
(*   LockSpec              lookups and updates of the cluster slot map     *)
(*   TaskSpec              ClusterRouter::new and its refresh task         *)
(*   BufSpec               the capacity of a connection's read buffer      *)
(***************************************************************************)
EXTENDS Integers, Sequences, FiniteSets, TLC

\* ------------------------------------------------------------------ bounds
\* config.pool_size: the semaphore's capacity and the idle deque's limit.
PoolSize == 2
\* Concurrent callers of the pool.
NumTasks == 3
\* The clock runs from 0 to MaxTime.
MaxTime == 1
\* config.idle_timeout_ms, in clock ticks.
IdleTimeout == 0
\* Connections the model may open (fresh identities 1..MaxConns).
MaxConns == 2
\* Router calls the model may start (fresh identities 1..MaxCalls).
MaxCalls == 2
\* Longest pipeline.
MaxCmds == 2
\* Concurrent callers of the standalone router (tasks 1..NumCallers).
NumCallers == 1
\* Hash slots are 0..MaxSlot (16383 in the program).
MaxSlot == 1
\* Cluster node addresses ("host:port") are 1..NumAddrs.
NumAddrs == 2

Tasks == 1..NumTasks
Callers == 1..NumCallers

VARIABLES
    idle,        \* ConnectionPool.idle: the deque, front first, back last
    permits,     \* ConnectionPool.semaphore: permits available
    waiters,     \* the semaphore's FIFO queue of suspended acquire() calls
    pc,          \* per task: its position in get() / the guard's life
    gconn,       \* per task: PoolGuard.conn (NoConn when None)
    now,         \* the clock (Instant::now())
    next_id,     \* identity of the next connection opened
    cfg_tls,     \* config.tls
    get_failed,  \* whether some get() has returned an error
    taken_out,   \* identities of connections moved out by PoolGuard::take
    call,        \* per task: the router call it is in (NoCall when none)
    ret,         \* per task: what its router call returns, while it returns
    next_call,   \* identity of the next router call
    slot_map,    \* ClusterRouter.slot_map: SlotMap.ranges, sorted by start
    nodes,       \* ClusterRouter.nodes: the addresses that have a pool
    read_from_replicas,  \* ClusterRouter.read_from_replicas
    xpc,         \* the execute call: "idle", "exec_on", "ask_asking", "ask_cmd", "done"
    xcmd,        \* the command: its key's slot (NoSlot for none), read-only or not
    xaddr,       \* the node the call talks to (execute_on's addr, or the ASK target)
    redirects_left,  \* execute_on's redirects_left
    sends,       \* how often the call has sent its command
    followed,    \* how many MOVED / ASK / TRYAGAIN replies the call has followed
    xvia,        \* how the call came to xaddr: "route", "moved", "tryagain", "ask"
    xwire,       \* what the call has sent on the guard it holds, in order
    xret,        \* what the call returned
    last_moved,  \* the last MOVED followed since the slot map was last replaced
    ppc,         \* the cluster pipeline call: "idle", "groups", "reading", "retry", "done"
    pcall,       \* the number of the pipeline call (calls are numbered from 1)
    pcmds,       \* its commands, each with its key's slot and whether read-only
    pgroups,     \* groups: per target address the indices of its commands, in order
    ptodo,       \* the groups the `for (addr, group) in &groups` loop has yet to visit
    pcur,        \* the address of the group being processed
    ppos,        \* the position of the read loop in that group
    pguard,      \* the replies not yet read from the connection of the guard held
    presults,    \* results: per command, what was stored for it (NoFrame for None)
    pret,        \* what the pipeline call returned
    nconn,       \* per node, the replies not yet read from its pool's idle connection
    predirs,     \* redirects the pipeline read loops have read so far
    spc,         \* SentinelRouter: "new", "failed", "idle", "retry", "get", "send", "read", "done"
    attempt,     \* execute_with_retry: the loop variable
    ssends,      \* how often the call has sent its command
    sleeps,      \* how often the call has slept the backoff
    failovers,   \* how often the call has called failover()
    slast_err,   \* last_err: "none" or the error it holds
    sret,        \* what the call returned
    master_addr, \* SentinelRouter.master_addr
    retry_count, \* SentinelRouter.retry_count
    cfg_password,\* whether config.password is Some
    opened,      \* the peers a TCP connection was opened to
    auth_sent,   \* the peers AUTH was sent to
    ipc,         \* create_connection / init: "closed", "auth", "select", "ok", "err", "out"
    iwire,       \* the commands init has sent on the connection, in order
    icfg,        \* config: tls, username, password, db
    ierr,        \* the error create_connection returned ("none" when none)
    frames,      \* the frames the server has written, in order
    stream,      \* their bytes the socket has not delivered yet
    buf,         \* RedisConnection.buf
    got,         \* what the read calls have returned so far, in order
    rpc,         \* read_response / read_raw_response: "closed", "idle", "parse", "read"
    rraw,        \* whether the calls are read_raw_response
    fin,         \* the input a function of the library is applied to
    fout,        \* what it returned (fn is "none" before it is applied)
    pool_size,   \* config.pool_size of the cluster's node pools
    node_permits,  \* per node: the permits its pool's semaphore has left
    kpc,         \* per pipeline call: "idle", "get", "reading", "on_get", "on_read", "done"
    kgroups,     \* per pipeline call: the groups its loop has yet to visit
    kguard,      \* per pipeline call: the node of the guard it holds (NoAddr for none)
    ktarget,     \* per pipeline call: the node execute_on or the ASK leg is at
    kleft,       \* per pipeline call: redirects_left of its execute_on
    master_pool, \* SentinelRouter.master_pool: the pool's address and identity
    fpc,         \* per failover() call: "idle", "resolved", "read", "pool_set", "done"
    new_addr,    \* per failover() call: new_addr
    current,     \* per failover() call: current
    next_pool,   \* identity of the next pool create_master_pool makes
    slot_lock,   \* slot_map's RwLock and the tasks using the slot map
    refresher,   \* ClusterRouter::new, its refresh task and the router's references
    conn_buf     \* a RedisConnection's read buffer and the call reading into it

\* slot_lock: the task holding the write lock (0 for none), the tasks
\* holding a read lock, and per task its position, its operation (lookup,
\* point-update or swap), the index its binary search found and what its
\* lookup returned; history is the map the completed writes give, applied
\* whole in lock order.
lock_writer == slot_lock.lock_writer
lock_readers == slot_lock.lock_readers
lpc == slot_lock.lpc
lop == slot_lock.lop
lidx == slot_lock.lidx
lseen == slot_lock.lseen
history == slot_lock.history

\* refresher: the position of the background task, new_map of its
\* refresh_slots_from (<<>> before it is parsed), the strong references
\* the users hold, whether the task holds an upgraded one, the position of
\* ClusterRouter::new ("seeds", "spawn", "returned", "failed"), the seeds
\* not yet tried, the task's wake-ups so far and what its last
\* refresh_slots_from returned.
tpc == refresher.tpc
tnew == refresher.tnew
strong == refresher.strong
upgraded == refresher.upgraded
npc == refresher.npc
seeds_left == refresher.seeds_left
nticks == refresher.nticks
tlast == refresher.tlast

\* conn_buf: buf.capacity(), buf.len(), max_buf_size, the length of the
\* frame the server is sending and how many of its bytes the socket has
\* yet to deliver, the position of the call ("idle", "parse", "grow",
\* "read", "returned", "too_large"), whether it is read_raw_response, and
\* the calls made so far.
bcap == conn_buf.bcap
blen == conn_buf.blen
bmax == conn_buf.bmax
bneed == conn_buf.bneed
bleft == conn_buf.bleft
bpc == conn_buf.bpc
braw == conn_buf.braw
bcalls == conn_buf.bcalls

poolVars == <<idle, permits, waiters, pc, gconn, now, next_id, cfg_tls,
              get_failed, taken_out>>

routerVars == <<call, ret, next_call>>

clusterVars == <<slot_map, nodes, read_from_replicas, xpc, xcmd, xaddr,
                 redirects_left, sends, followed, xvia, xwire, xret, last_moved>>

pipeVars == <<ppc, pcall, pcmds, pgroups, ptodo, pcur, ppos, pguard, presults,
              pret, nconn, predirs>>

sentVars == <<spc, attempt, ssends, sleeps, failovers, slast_err, sret, master_addr,
              retry_count, cfg_password, opened, auth_sent>>

connVars == <<ipc, iwire, icfg, ierr>>

respVars == <<frames, stream, buf, got, rpc, rraw, fin, fout>>

permVars == <<pool_size, node_permits, kpc, kgroups, kguard, ktarget, kleft>>

foVars == <<master_pool, fpc, new_addr, current, next_pool>>

lockVars == <<slot_lock>>

taskVars == <<refresher>>

bufVars == <<conn_buf>>

vars == <<poolVars, routerVars, clusterVars, pipeVars, sentVars, connVars, respVars,
          permVars, foVars, lockVars, taskVars, bufVars>>

\* ------------------------------------------------------ RedisConnection
\* A connection: its identity, RedisConnection.last_used, the replies the
\* server owes on it that have not been read (oldest first), whether a
\* command was written only in part, and whether an I/O or protocol error has
\* been returned on it.
NoConn == [id |-> 0, last_used |-> 0, pending |-> <<>>, partial |-> FALSE,
           broken |-> FALSE]

\* RedisConnection::connect_with_max_buf: a fresh connection, last_used = now.
connect(id, t_now) ==
    [id |-> id, last_used |-> t_now, pending |-> <<>>, partial |-> FALSE,
     broken |-> FALSE]

\* conn.last_used.elapsed() > self.idle_timeout
is_stale(conn, t_now) == t_now - conn.last_used > IdleTimeout

\* ------------------------------------------------------- ConnectionPool
\* ConnectionPool::max_size
max_size == PoolSize

\* ConnectionPool::available
available == permits

\* ConnectionPool::idle_count
idle_count == Len(idle)

\* A take_healthy_connection that reads the back of the deque without
\* removing it (back() where pop_back() is meant).
take_healthy_connection_peek(q, t_now) ==
    IF q = <<>> THEN [conn |-> NoConn, idle |-> q]
    ELSE [conn |-> q[Len(q)], idle |-> q]

\* A take_healthy_connection that takes from the front of the deque.
RECURSIVE take_healthy_connection_front(_, _)
take_healthy_connection_front(q, t_now) ==
    IF q = <<>> THEN [conn |-> NoConn, idle |-> q]
    ELSE IF is_stale(Head(q), t_now) THEN take_healthy_connection_front(Tail(q), t_now)
    ELSE [conn |-> Head(q), idle |-> Tail(q)]

\* take_healthy_connection: pop from the back, dropping stale connections,
\* until a connection that is not stale is found or the deque is empty.
RECURSIVE take_healthy_connection(_, _)
take_healthy_connection(q, t_now) ==
    IF q = <<>> THEN [conn |-> NoConn, idle |-> q]
    ELSE LET c == q[Len(q)]
             rest == SubSeq(q, 1, Len(q) - 1)
         IN IF is_stale(c, t_now) THEN take_healthy_connection(rest, t_now)
            ELSE [conn |-> c, idle |-> rest]

\* A return_connection that pushes the connection back whatever its age.
return_connection_keep_stale(q, conn, t_now) ==
    IF Len(q) < max_size THEN Append(q, conn) ELSE q

\* return_connection: a stale connection is dropped; otherwise it is pushed
\* at the back when the deque holds fewer than max_size connections.
return_connection(q, conn, t_now) ==
    IF is_stale(conn, t_now) THEN q
    ELSE IF Len(q) < max_size THEN Append(q, conn)
    ELSE q

\* Semaphore::acquire as called by get(): a permit is taken at once when one
\* is available, otherwise the caller joins the FIFO queue.
sem_acquire(t) ==
    IF permits > 0
    THEN /\ permits' = permits - 1
         /\ pc' = [pc EXCEPT ![t] = "acquired"]
         /\ UNCHANGED waiters
    ELSE /\ waiters' = Append(waiters, t)
         /\ pc' = [pc EXCEPT ![t] = "waiting"]
         /\ UNCHANGED permits

\* A release that only returns the permit to the counter and wakes nobody.
sem_release_no_wake(t, next) ==
    /\ pc' = [pc EXCEPT ![t] = next]
    /\ permits' = permits + 1
    /\ UNCHANGED waiters

\* Dropping a SemaphorePermit by task t, which then is at position `next`:
\* the permit goes to the longest-waiting acquire() when there is one, and
\* back to the semaphore otherwise.
sem_release(t, next) ==
    IF waiters # <<>>
    THEN /\ pc' = [pc EXCEPT ![t] = next, ![Head(waiters)] = "acquired"]
         /\ waiters' = Tail(waiters)
         /\ UNCHANGED permits
    ELSE /\ pc' = [pc EXCEPT ![t] = next]
         /\ permits' = permits + 1
         /\ UNCHANGED waiters

\* ------------------------------------------------------ router calls
\* No router call in progress.
NoCall == [kind |-> "none", id |-> 0, n |-> 0, sent |-> FALSE, responses |-> <<>>]

\* Nothing returned yet.
NoRet == [status |-> "none", call |-> 0, kind |-> "none", n |-> 0, val |-> <<>>]

\* The Err a router call returns through `?`.
RetErr(c) == [status |-> "err", call |-> c.id, kind |-> c.kind, n |-> c.n, val |-> <<>>]

\* The Ok a router call returns: the frame for execute, the Vec for pipeline.
RetOk(c, responses) ==
    [status |-> "ok", call |-> c.id, kind |-> c.kind, n |-> c.n, val |-> responses]

\* encode_pipeline / encode_command_str as the server sees them: the
\* commands of call c in order; the server answers in the order received, so
\* these are also the replies it owes.
reply_frames(c) ==
    [i \in 1..c.n |-> [call |-> c.id, idx |-> i]]

\* The frame that answers a command: a value, or a server error frame (err).
frame_of(reply, err) == [call |-> reply.call, idx |-> reply.idx, err |-> err]

\* A read loop that gives up at the first server error frame.
read_complete_stop_on_error(responses, n) ==
    \/ Len(responses) = n
    \/ (responses # <<>> /\ responses[Len(responses)].err)

\* `for _ in commands { responses.push(read()?) }`: the loop ends when one
\* frame has been read per command.
read_complete(responses, n) == Len(responses) = n

\* ------------------------------------------- cluster router constants
\* The most MOVED / TRYAGAIN replies one execute call follows.
MAX_REDIRECTS == 5

Slots == 0..MaxSlot
Addrs == 1..NumAddrs
\* No key, hence no slot (extract_key returned None).
NoSlot == MaxSlot + 1
\* No address: the None of master_for_slot and the "" of execute_routed.
NoAddr == 0
\* No MOVED followed since the slot map was last replaced.
NoMove == [slot |-> NoSlot, addr |-> NoAddr]

NoXRet == [status |-> "none", kind |-> "none", reply |-> "none", why |-> "none"]
XErr(kind, why) == [status |-> "err", kind |-> kind, reply |-> "none", why |-> why]
XOk(reply, why) == [status |-> "ok", kind |-> "none", reply |-> reply, why |-> why]


\* ---------------------------------------------------------------- Init
PoolInit ==
    /\ idle = <<>>
    /\ permits = max_size
    /\ waiters = <<>>
    /\ pc = [t \in Tasks |-> "idle"]
    /\ gconn = [t \in Tasks |-> NoConn]
    /\ now = 0
    /\ next_id = 1
    /\ get_failed = FALSE
    /\ taken_out = {}
    /\ call = [t \in Tasks |-> NoCall]
    /\ ret = [t \in Tasks |-> NoRet]
    /\ next_call = 1

\* The router of the pool and standalone specifications is no cluster router.
NoCluster ==
    /\ slot_map = <<>>
    /\ nodes = {}
    /\ read_from_replicas = FALSE
    /\ xpc = "idle"
    /\ xcmd = [slot |-> NoSlot, read |-> FALSE]
    /\ xaddr = NoAddr
    /\ redirects_left = MAX_REDIRECTS
    /\ sends = 0
    /\ followed = 0
    /\ xvia = "route"
    /\ xwire = <<>>
    /\ xret = NoXRet
    /\ last_moved = NoMove

\* What a pipeline stored for a command: the number of the call and the
\* index of the command the reply answers, and how the reply was got
\* ("pipe", "retry", "ask", "no_node"). NoFrame is the None of `results`.
NoFrame == [call |-> 0, idx |-> 0, via |-> "none", node |-> NoAddr]

NoPRet == [status |-> "none", val |-> <<>>]

\* No cluster pipeline has been called, and no node's pool has a connection.
NoPipe ==
    /\ ppc = "idle"
    /\ pcall = 0
    /\ pcmds = <<>>
    /\ pgroups = [a \in Addrs \cup {NoAddr} |-> <<>>]
    /\ ptodo = {}
    /\ pcur = NoAddr
    /\ ppos = 0
    /\ pguard = <<>>
    /\ presults = <<>>
    /\ pret = NoPRet
    /\ nconn = [a \in Addrs |-> <<>>]
    /\ predirs = 0

\* No sentinel router.
NoSentinel ==
    /\ spc = "none"
    /\ attempt = 0
    /\ ssends = 0
    /\ sleeps = 0
    /\ failovers = 0
    /\ slast_err = "none"
    /\ sret = [status |-> "none", val |-> "none"]
    /\ master_addr = NoAddr
    /\ retry_count = 0
    /\ cfg_password = FALSE
    /\ opened = {}
    /\ auth_sent = {}

\* No connection being opened apart from the pool's.
NoConnecting ==
    /\ ipc = "closed"
    /\ iwire = <<>>
    /\ icfg = [tls |-> FALSE, username |-> FALSE, password |-> FALSE, db |-> 0]
    /\ ierr = "none"

\* No connection reading replies, no function applied.
NoReading ==
    /\ frames = <<>>
    /\ stream = <<>>
    /\ buf = <<>>
    /\ got = <<>>
    /\ rpc = "closed"
    /\ rraw = FALSE
    /\ fin = [fn |-> "none"]
    /\ fout = [fn |-> "none"]

\* Concurrent ClusterRouter::pipeline calls (1..NumPipelines).
NumPipelines == 2

\* Concurrent SentinelRouter::failover calls (1..NumFailovers).
NumFailovers == 2

\* No cluster pipeline call holding or awaiting a pool permit.
NoPipelines ==
    /\ pool_size = 0
    /\ node_permits = [a \in Addrs |-> 0]
    /\ kpc = [k \in 1..NumPipelines |-> "idle"]
    /\ kgroups = [k \in 1..NumPipelines |-> {}]
    /\ kguard = [k \in 1..NumPipelines |-> NoAddr]
    /\ ktarget = [k \in 1..NumPipelines |-> NoAddr]
    /\ kleft = [k \in 1..NumPipelines |-> 0]

\* No failover() call in progress, no master pool.
NoFailovers ==
    /\ master_pool = [addr |-> NoAddr, id |-> 0]
    /\ fpc = [f \in 1..NumFailovers |-> "idle"]
    /\ new_addr = [f \in 1..NumFailovers |-> NoAddr]
    /\ current = [f \in 1..NumFailovers |-> NoAddr]
    /\ next_pool = 0

\* Concurrent users of the slot map (tasks 1..NumLockers).
NumLockers == 2

NoOp == [kind |-> "none", slot |-> 0, addr |-> 0, map |-> <<>>]

\* No task at the slot map's lock.
NoLocking ==
    slot_lock = [lock_writer |-> 0, lock_readers |-> {},
                 lpc |-> [t \in 1..NumLockers |-> "idle"],
                 lop |-> [t \in 1..NumLockers |-> NoOp],
                 lidx |-> [t \in 1..NumLockers |-> 0],
                 lseen |-> [t \in 1..NumLockers |-> 0],
                 history |-> <<>>]

\* No ClusterRouter::new, no refresh task.
NoTask ==
    refresher = [tpc |-> "none", tnew |-> <<>>, strong |-> 0, upgraded |-> FALSE,
                 npc |-> "none", seeds_left |-> 0, nticks |-> 0, tlast |-> "none"]

\* No connection whose buffer is followed.
NoBuffer ==
    conn_buf = [bcap |-> 0, blen |-> 0, bmax |-> 0, bneed |-> 0, bleft |-> 0,
                bpc |-> "closed", braw |-> FALSE, bcalls |-> 0]

Init ==
    /\ PoolInit
    /\ cfg_tls \in BOOLEAN
    /\ NoCluster
    /\ NoPipe
    /\ NoSentinel
    /\ NoConnecting
    /\ NoReading /\ NoPipelines /\ NoFailovers /\ NoLocking /\ NoTask /\ NoBuffer

\* ------------------------------------------------------------- actions
\* get(), first step: self.semaphore.acquire().await
Get(t) ==
    /\ pc[t] = "idle"
    /\ sem_acquire(t)
    /\ UNCHANGED <<idle, gconn, now, next_id, cfg_tls, get_failed, taken_out>>
    /\ UNCHANGED <<routerVars, clusterVars, pipeVars, sentVars, connVars, respVars, permVars, foVars, lockVars, taskVars, bufVars>>

\* get(), second step: under the idle lock, take_healthy_connection; a
\* connection found makes the guard, none found goes on to create_connection.
Checkout(t) ==
    /\ pc[t] = "acquired"
    /\ LET r == take_healthy_connection(idle, now)
       IN /\ idle' = r.idle
          /\ IF r.conn # NoConn
             THEN /\ gconn' = [gconn EXCEPT ![t] = r.conn]
                  /\ pc' = [pc EXCEPT ![t] = "guard"]
             ELSE /\ pc' = [pc EXCEPT ![t] = "creating"]
                  /\ UNCHANGED gconn
    /\ UNCHANGED <<permits, waiters, now, next_id, cfg_tls, get_failed,
                   taken_out>>
    /\ UNCHANGED <<routerVars, clusterVars, pipeVars, sentVars, connVars, respVars, permVars, foVars, lockVars, taskVars, bufVars>>

\* get(), third step, create_connection succeeded: connect and init went
\* through (never with tls set); the guard is made.
CreateOk(t) ==
    /\ pc[t] = "creating"
    /\ ~cfg_tls
    /\ next_id <= MaxConns
    /\ gconn' = [gconn EXCEPT ![t] = connect(next_id, now)]
    /\ next_id' = next_id + 1
    /\ pc' = [pc EXCEPT ![t] = "guard"]
    /\ UNCHANGED <<idle, permits, waiters, now, cfg_tls, get_failed, taken_out>>
    /\ UNCHANGED <<routerVars, clusterVars, pipeVars, sentVars, connVars, respVars, permVars, foVars, lockVars, taskVars, bufVars>>

\* A failing get() that forgets its permit instead of dropping it.
CreateErr_leak(t) ==
    /\ pc[t] = "creating"
    /\ pc' = [pc EXCEPT ![t] = "idle"]
    /\ get_failed' = TRUE
    /\ UNCHANGED <<idle, permits, waiters, gconn, now, next_id, cfg_tls,
                   taken_out>>
    /\ UNCHANGED <<routerVars, clusterVars, pipeVars, sentVars, connVars, respVars, permVars, foVars, lockVars, taskVars, bufVars>>

\* get(), third step, create_connection failed (tls requested, connect
\* refused or timed out, AUTH or SELECT refused): `?` returns the error and
\* the permit, a local of get(), is dropped. A router call that asked for the
\* connection returns the error in turn (`self.pool.get().await?`).
CreateErr(t) ==
    /\ pc[t] = "creating"
    /\ sem_release(t, "idle")
    /\ get_failed' = TRUE
    /\ call' = [call EXCEPT ![t] = NoCall]
    /\ ret' = [ret EXCEPT ![t] = IF call[t] = NoCall THEN @ ELSE RetErr(call[t])]
    /\ UNCHANGED <<idle, gconn, now, next_id, cfg_tls, taken_out, next_call>>
    /\ UNCHANGED <<clusterVars, pipeVars, sentVars, connVars, respVars, permVars, foVars, lockVars, taskVars, bufVars>>

\* The guard's owner does I/O on the connection: last_used = Instant::now().
Use(t) ==
    /\ pc[t] = "guard"
    /\ gconn' = [gconn EXCEPT ![t].last_used = now]
    /\ UNCHANGED <<idle, permits, waiters, pc, now, next_id, cfg_tls, get_failed,
                   taken_out>>
    /\ UNCHANGED <<routerVars, clusterVars, pipeVars, sentVars, connVars, respVars, permVars, foVars, lockVars, taskVars, bufVars>>

\* Drop for PoolGuard, first step: Drop::drop runs return_connection.
DropGuard(t) ==
    /\ pc[t] = "guard"
    /\ idle' = return_connection(idle, gconn[t], now)
    /\ gconn' = [gconn EXCEPT ![t] = NoConn]
    /\ pc' = [pc EXCEPT ![t] = "dropped"]
    /\ UNCHANGED <<permits, waiters, now, next_id, cfg_tls, get_failed, taken_out>>
    /\ UNCHANGED <<routerVars, clusterVars, pipeVars, sentVars, connVars, respVars, permVars, foVars, lockVars, taskVars, bufVars>>

\* PoolGuard::take: the connection is moved out to the caller; the guard's
\* Drop::drop then finds conn = None and returns nothing.
Take(t) ==
    /\ pc[t] = "guard"
    /\ taken_out' = taken_out \cup {gconn[t].id}
    /\ gconn' = [gconn EXCEPT ![t] = NoConn]
    /\ pc' = [pc EXCEPT ![t] = "taken"]
    /\ UNCHANGED <<idle, permits, waiters, now, next_id, cfg_tls, get_failed>>
    /\ UNCHANGED <<routerVars, clusterVars, pipeVars, sentVars, connVars, respVars, permVars, foVars, lockVars, taskVars, bufVars>>

\* Drop for PoolGuard, last step: the fields are dropped after Drop::drop
\* returned, among them _permit. A router call that held the guard has
\* returned by now and its caller has taken the result.
ReleasePermit(t) ==
    /\ pc[t] \in {"dropped", "taken"}
    /\ sem_release(t, "idle")
    /\ ret' = [ret EXCEPT ![t] = NoRet]
    /\ UNCHANGED <<idle, gconn, now, next_id, cfg_tls, get_failed, taken_out>>
    /\ UNCHANGED <<call, next_call>>
    /\ UNCHANGED <<clusterVars, pipeVars, sentVars, connVars, respVars, permVars, foVars, lockVars, taskVars, bufVars>>

\* Time passes.
Tick ==
    /\ now < MaxTime
    /\ now' = now + 1
    /\ UNCHANGED <<idle, permits, waiters, pc, gconn, next_id, cfg_tls, get_failed,
                   taken_out>>
    /\ UNCHANGED <<routerVars, clusterVars, pipeVars, sentVars, connVars, respVars, permVars, foVars, lockVars, taskVars, bufVars>>

Next ==
    \/ \E t \in Tasks : Get(t)
    \/ \E t \in Tasks : Checkout(t)
    \/ \E t \in Tasks : CreateOk(t)
    \/ \E t \in Tasks : CreateErr(t)
    \/ \E t \in Tasks : Use(t)
    \/ \E t \in Tasks : DropGuard(t)
    \/ \E t \in Tasks : Take(t)
    \/ \E t \in Tasks : ReleasePermit(t)
    \/ Tick

Spec == Init /\ [][Next]_vars

\* -------------------------------------------------- StandaloneRouter
\* The call returns `r` while it holds the guard on connection `conn`: the
\* guard, a local of the call, is dropped, and Drop::drop runs
\* return_connection. The permit is released by ReleasePermit.
ReturnWithGuard(t, conn, r) ==
    /\ idle' = return_connection(idle, conn, now)
    /\ gconn' = [gconn EXCEPT ![t] = NoConn]
    /\ pc' = [pc EXCEPT ![t] = "dropped"]
    /\ call' = [call EXCEPT ![t] = NoCall]
    /\ ret' = [ret EXCEPT ![t] = r]

\* execute / execute_raw (n = 1) and pipeline / pipeline_raw (n commands) are
\* called: `self.pool.get().await`.
StandaloneCall(t, kind, n) ==
    /\ pc[t] = "idle"
    /\ next_call <= MaxCalls
    /\ call' = [call EXCEPT ![t] =
                  [kind |-> kind, id |-> next_call, n |-> n, sent |-> FALSE,
                   responses |-> <<>>]]
    /\ next_call' = next_call + 1
    /\ ret' = [ret EXCEPT ![t] = NoRet]
    /\ sem_acquire(t)
    /\ UNCHANGED <<idle, gconn, now, next_id, cfg_tls, get_failed, taken_out>>
    /\ UNCHANGED <<clusterVars, pipeVars, sentVars, connVars, respVars, permVars, foVars, lockVars, taskVars, bufVars>>

\* guard.conn().send_raw(&buf) succeeds: every command is written and the
\* server will answer each; last_used = now. An empty pipeline has nothing to
\* read and returns Ok at once.
SendRawOk(t) ==
    /\ pc[t] = "guard"
    /\ call[t].kind # "none"
    /\ ~call[t].sent
    /\ LET conn == [gconn[t] EXCEPT
                      !.pending = @ \o reply_frames(call[t]),
                      !.last_used = now]
       IN IF read_complete(<<>>, call[t].n)
          THEN /\ ReturnWithGuard(t, conn, RetOk(call[t], <<>>))
          ELSE /\ gconn' = [gconn EXCEPT ![t] = conn]
               /\ call' = [call EXCEPT ![t].sent = TRUE]
               /\ UNCHANGED <<idle, pc, ret>>
    /\ UNCHANGED <<permits, waiters, now, next_id, cfg_tls, get_failed, taken_out,
                   next_call>>
    /\ UNCHANGED <<clusterVars, pipeVars, sentVars, connVars, respVars, permVars, foVars, lockVars, taskVars, bufVars>>

\* guard.conn().send_raw(&buf) fails (write_all returns an I/O error, perhaps
\* after part of the buffer went out): `?` returns the error.
SendRawErr(t) ==
    /\ pc[t] = "guard"
    /\ call[t].kind # "none"
    /\ ~call[t].sent
    /\ call[t].n > 0
    /\ \E part \in BOOLEAN :
         LET conn == [gconn[t] EXCEPT !.broken = TRUE, !.partial = part]
         IN ReturnWithGuard(t, conn, RetErr(call[t]))
    /\ UNCHANGED <<permits, waiters, now, next_id, cfg_tls, get_failed, taken_out,
                   next_call>>
    /\ UNCHANGED <<clusterVars, pipeVars, sentVars, connVars, respVars, permVars, foVars, lockVars, taskVars, bufVars>>

\* read_response / read_raw_response returns the next frame on the
\* connection; a server error frame is a frame like any other. After the last
\* frame the call returns Ok. A connection on which a read failed yields no
\* further frame: a dead socket stays dead, and the parser's error leaves the
\* offending bytes at the head of the buffer (tcp.rs:103-106, 154).
ReadResponseOk(t) ==
    /\ pc[t] = "guard"
    /\ call[t].kind # "none"
    /\ call[t].sent
    /\ ~gconn[t].broken
    /\ gconn[t].pending # <<>>
    /\ \E err \in BOOLEAN :
         LET frame == frame_of(Head(gconn[t].pending), err)
             conn == [gconn[t] EXCEPT !.pending = Tail(@), !.last_used = now]
             responses == Append(call[t].responses, frame)
         IN IF read_complete(responses, call[t].n)
            THEN ReturnWithGuard(t, conn, RetOk(call[t], responses))
            ELSE /\ gconn' = [gconn EXCEPT ![t] = conn]
                 /\ call' = [call EXCEPT ![t].responses = responses]
                 /\ UNCHANGED <<idle, pc, ret>>
    /\ UNCHANGED <<permits, waiters, now, next_id, cfg_tls, get_failed, taken_out,
                   next_call>>
    /\ UNCHANGED <<clusterVars, pipeVars, sentVars, connVars, respVars, permVars, foVars, lockVars, taskVars, bufVars>>

\* read_response / read_raw_response fails (socket error, end of stream,
\* malformed frame, frame larger than the buffer limit): `?` returns the error.
ReadResponseErr(t) ==
    /\ pc[t] = "guard"
    /\ call[t].kind # "none"
    /\ call[t].sent
    /\ LET conn == [gconn[t] EXCEPT !.broken = TRUE]
       IN ReturnWithGuard(t, conn, RetErr(call[t]))
    /\ UNCHANGED <<permits, waiters, now, next_id, cfg_tls, get_failed, taken_out,
                   next_call>>
    /\ UNCHANGED <<clusterVars, pipeVars, sentVars, connVars, respVars, permVars, foVars, lockVars, taskVars, bufVars>>

RouterNext ==
    \/ \E t \in Callers : StandaloneCall(t, "execute", 1)
    \/ \E t \in Callers, n \in 0..MaxCmds : StandaloneCall(t, "pipeline", n)
    \/ \E t \in Callers : Checkout(t)
    \/ \E t \in Callers : CreateOk(t)
    \/ \E t \in Callers : CreateErr(t)
    \/ \E t \in Callers : SendRawOk(t)
    \/ \E t \in Callers : SendRawErr(t)
    \/ \E t \in Callers : ReadResponseOk(t)
    \/ \E t \in Callers : ReadResponseErr(t)
    \/ \E t \in Callers : ReleasePermit(t)
    \/ Tick

RouterSpec == Init /\ [][RouterNext]_vars

\* A task that holds its permit is polled until get() returns, and a
\* destructor that has begun runs to its end. Callers are free never to call
\* get() and never to let go of a guard.
FairSpec ==
    /\ Spec
    /\ \A t \in Tasks : WF_vars(Checkout(t))
    /\ \A t \in Tasks : WF_vars(CreateOk(t) \/ CreateErr(t))
    /\ \A t \in Tasks : WF_vars(ReleasePermit(t))

\* ------------------------------------------------------- pool properties
\* Tasks that hold a permit.
Holders == {t \in Tasks : pc[t] \in {"acquired", "creating", "guard", "dropped", "taken"}}

\* Permits outstanding.
Held == max_size - permits

\* Tasks between acquiring the permit and looking at the idle deque, or
\* between giving up the connection and releasing the permit.
InWindow == {t \in Tasks : pc[t] \in {"acquired", "dropped", "taken"}}

\* PoolGuards in existence (one being dropped still exists).
Guards == {t \in Tasks : pc[t] \in {"guard", "dropped", "taken"}}

AllIdle == \A t \in Tasks : pc[t] = "idle"

\* C1 as stated: in every state, at the granularity of the steps of get()
\* and of the guard's drop, permits held + len(idle) <= pool_size.
C1_PermitsPlusIdle == Held + Len(idle) <= max_size

\* C1 amended: the permits held are exactly those of the tasks past
\* acquire(); those held by tasks that own or are opening a connection, plus
\* len(idle), are at most pool_size; so permits held + len(idle) exceeds
\* pool_size by no more than the number of tasks that are between acquire and
\* the idle pop or between giving up the connection and releasing the permit.
C1_Conservation ==
    /\ Held = Cardinality(Holders)
    /\ Held <= max_size
    /\ Len(idle) <= max_size
    /\ Held - Cardinality(InWindow) + Len(idle) <= max_size

\* C1 witness: a guard has pushed its connection and still holds its permit,
\* with the deque full.
C1_Witness ==
    \E t \in Tasks : pc[t] = "dropped" /\ Len(idle) = max_size /\ Held = max_size

\* C9: at most pool_size guards exist; while pool_size guards exist no other
\* get() is past acquire(); a suspended get() leaves the queue only in a step
\* in which another task releases a permit, and each release with get()s
\* suspended passes the permit to the longest-suspended one; a get() that has
\* its permit returns (a guard or an error).
C9_BoundedCheckout ==
    /\ [](Cardinality(Guards) <= max_size)
    /\ [](Cardinality(Guards) = max_size
            => \A t \in Tasks : pc[t] \notin {"acquired", "creating"})
    /\ [][\A t \in Tasks :
            (pc[t] = "waiting" /\ pc'[t] # "waiting")
                => \E u \in Tasks \ {t} :
                      /\ pc[u] \in {"dropped", "taken", "creating"}
                      /\ pc'[u] = "idle"]_vars
    /\ [][\A u \in Tasks :
            (pc[u] \in {"dropped", "taken", "creating"} /\ pc'[u] = "idle"
                                                       /\ waiters # <<>>)
                => pc'[Head(waiters)] = "acquired"]_vars
    /\ \A t \in Tasks : []<>(pc[t] \notin {"acquired", "creating"})

\* C9 witness: pool_size guards exist, one of them in its drop, and a get()
\* is suspended.
C9_Witness ==
    /\ Cardinality(Guards) = max_size
    /\ \E t, u \in Tasks : pc[t] = "waiting" /\ pc[u] = "dropped"

\* C10: when no get() is in progress and no guard exists, available() is
\* pool_size and idle_count() is at most pool_size, whether the get() calls
\* succeeded or failed; a connection moved out by take() is not in the idle
\* deque, and take() leaves the deque as it was.
C10_Balanced ==
    /\ AllIdle => (available = max_size /\ idle_count <= max_size)
    /\ \A i \in 1..Len(idle) : idle[i].id \notin taken_out
    /\ \A t \in Tasks : pc[t] = "taken" => gconn[t] = NoConn

\* C10 witness: every task is done, one get() failed and one guard was taken.
C10_Witness ==
    /\ AllIdle
    /\ get_failed
    /\ taken_out # {}

\* ------------------------------------------------- router properties
\* C2 as stated: a connection on which send_raw, read_response or
\* read_raw_response returned an error is not in the idle deque.
C2_ErroredDiscarded ==
    \A i \in 1..Len(idle) : ~idle[i].broken

\* C3 as stated: no connection in the idle deque has a partly written
\* command or an unread response.
C3_IdleHasNoOutstanding ==
    \A i \in 1..Len(idle) : idle[i].pending = <<>> /\ ~idle[i].partial

SlotRange(start, end, master, replicas) ==
    [start |-> start, end |-> end, master |-> master, replicas |-> replicas]

\* The slot maps CLUSTER SLOTS installs: one range over every slot; two
\* ranges, the first with a replica; a map that leaves slots unassigned.
\* from_cluster_slots sorts the ranges by start. Node 1 is the primary of
\* every range until a MOVED says otherwise.
ClusterSlotsReplies ==
    { <<SlotRange(0, MaxSlot, 1, <<>>)>>,
      <<SlotRange(0, 0, 1, <<2>>), SlotRange(1, MaxSlot, 1, <<>>)>>,
      <<SlotRange(0, 0, 1, <<>>)>> }

\* binary_search_by over ranges[lo .. hi - 1]: the index of a range that
\* holds the slot, 0 for Err.
RECURSIVE binary_search_by(_, _, _, _)
binary_search_by(ranges, slot, lo, hi) ==
    IF lo >= hi THEN 0
    ELSE LET mid == lo + ((hi - lo) \div 2)
         IN  IF slot < ranges[mid].start
                 THEN binary_search_by(ranges, slot, lo, mid)
             ELSE IF slot > ranges[mid].end
                 THEN binary_search_by(ranges, slot, mid + 1, hi)
             ELSE mid

range_of(ranges, slot) == binary_search_by(ranges, slot, 1, Len(ranges) + 1)

master_for_slot(ranges, slot) ==
    LET i == range_of(ranges, slot)
    IN  IF i = 0 THEN NoAddr ELSE ranges[i].master

replica_for_slot(ranges, slot) ==
    LET i == range_of(ranges, slot)
    IN  IF i = 0 THEN NoAddr
        ELSE IF ranges[i].replicas = <<>> THEN ranges[i].master
        ELSE ranges[i].replicas[(slot % Len(ranges[i].replicas)) + 1]

\* A MOVED arm that leaves the slot map as it was.
update_slot_master_skip(ranges, slot, addr) == ranges

\* An update that gives the new primary to every range of the map.
update_slot_master_all(ranges, slot, addr) ==
    IF range_of(ranges, slot) = 0 THEN ranges
    ELSE [i \in 1..Len(ranges) |-> [ranges[i] EXCEPT !.master = addr]]

update_slot_master(ranges, slot, addr) ==
    LET i == range_of(ranges, slot)
    IN  IF i = 0 THEN ranges ELSE [ranges EXCEPT ![i].master = addr]

\* Every address a slot map names: masters and replicas.
map_addrs(ranges) ==
    UNION { {ranges[i].master} \cup {ranges[i].replicas[j] : j \in 1..Len(ranges[i].replicas)}
            : i \in 1..Len(ranges) }

\* str::to_ascii_uppercase on the letters the verbs below are written with.
to_ascii_uppercase(w) ==
    [i \in 1..Len(w) |->
        CASE w[i] = "g" -> "G" [] w[i] = "e" -> "E" [] w[i] = "t" -> "T"
          [] w[i] = "s" -> "S" [] w[i] = "l" -> "L" [] OTHER -> w[i]]

\* Two of the verbs is_read_only_command lists.
ReadOnlyVerbs == {<<"G", "E", "T">>, <<"T", "T", "L">>}

is_read_only_command(w) == to_ascii_uppercase(w) \in ReadOnlyVerbs

\* Verbs as callers write them.
Verbs == {<<"G", "E", "T">>, <<"g", "e", "t">>, <<"G", "e", "t">>, <<"t", "t", "l">>,
          <<"S", "E", "T">>, <<"s", "e", "t">>, <<"G", "E", "T", "S", "E", "T">>}

\* A choice of node that sends every keyed command to a replica when
\* read_from_replicas is set.
route_any_verb(ranges, cmd, from_replicas) ==
    IF cmd.slot # NoSlot
        THEN IF from_replicas
                 THEN IF replica_for_slot(ranges, cmd.slot) # NoAddr
                          THEN replica_for_slot(ranges, cmd.slot)
                          ELSE master_for_slot(ranges, cmd.slot)
                 ELSE master_for_slot(ranges, cmd.slot)
        ELSE IF ranges = <<>> THEN NoAddr ELSE ranges[1].master

\* execute_routed's choice of node.
route(ranges, cmd, from_replicas) ==
    IF cmd.slot # NoSlot
        THEN IF cmd.read /\ from_replicas
                 THEN IF replica_for_slot(ranges, cmd.slot) # NoAddr
                          THEN replica_for_slot(ranges, cmd.slot)
                          ELSE master_for_slot(ranges, cmd.slot)
                 ELSE master_for_slot(ranges, cmd.slot)
        ELSE IF ranges = <<>> THEN NoAddr ELSE ranges[1].master

\* Replies execute_on hands back as they are: a value, an error that is no
\* redirect, a MOVED or ASK whose slot or address does not parse.
PlainReplies == {"value", "error", "malformed_redirect"}
\* Every reply a node can give to the command sent after ASKING.
AllReplies == PlainReplies \cup {"moved", "ask", "tryagain", "clusterdown"}

ClusterInit ==
    /\ slot_map \in ClusterSlotsReplies
    /\ nodes = map_addrs(slot_map)
    /\ read_from_replicas \in BOOLEAN
    /\ xpc = "idle"
    /\ xcmd = [slot |-> NoSlot, read |-> FALSE]
    /\ xaddr = NoAddr
    /\ redirects_left = MAX_REDIRECTS
    /\ sends = 0
    /\ followed = 0
    /\ xvia = "route"
    /\ xwire = <<>>
    /\ xret = NoXRet
    /\ last_moved = NoMove

NoPool == PoolInit /\ cfg_tls = FALSE

\* ------------------------------------------------------ cluster actions
Commands == [slot : Slots \cup {NoSlot}, read : BOOLEAN]

\* get_pool(addr): the registry has a pool for addr afterwards.
get_pool(registry, addr) == registry \cup {addr}

\* The call is over: Ok(reply) or Err(kind).
Return(r) ==
    /\ xpc' = "done"
    /\ xret' = r

\* execute(args) -> execute_routed(args): pick the node, call execute_on
\* with the whole budget; no node is an error before any send.
ExecuteRouted(cmd) ==
    /\ xpc \in {"idle", "done"}
    /\ xcmd' = cmd
    /\ xaddr' = route(slot_map, cmd, read_from_replicas)
    /\ IF xaddr' = NoAddr
           THEN Return(XErr("Cluster", "no_node"))
           ELSE xpc' = "exec_on" /\ xret' = NoXRet
    /\ redirects_left' = MAX_REDIRECTS
    /\ sends' = 0
    /\ followed' = 0
    /\ xvia' = "route"
    /\ xwire' = <<>>
    /\ UNCHANGED <<slot_map, nodes, read_from_replicas, last_moved>>
    /\ UNCHANGED <<poolVars, routerVars, pipeVars, sentVars, connVars, respVars, permVars, foVars, lockVars, taskVars, bufVars>>

\* execute_on: pool.get() fails, nothing is sent.
ExecOnGetErr ==
    /\ xpc = "exec_on"
    /\ nodes' = get_pool(nodes, xaddr)
    /\ Return(XErr("Connection", "get"))
    /\ UNCHANGED <<slot_map, read_from_replicas, xcmd, xaddr, redirects_left,
                   sends, followed, xvia, xwire, last_moved>>
    /\ UNCHANGED <<poolVars, routerVars, pipeVars, sentVars, connVars, respVars, permVars, foVars, lockVars, taskVars, bufVars>>

\* execute_on: send_raw or read_response fails.
ExecOnIoErr ==
    /\ xpc = "exec_on"
    /\ nodes' = get_pool(nodes, xaddr)
    /\ sends' = sends + 1
    /\ xwire' = <<"CMD">>
    /\ Return(XErr("Connection", "io"))
    /\ UNCHANGED <<slot_map, read_from_replicas, xcmd, xaddr, redirects_left,
                   followed, xvia, last_moved>>
    /\ UNCHANGED <<poolVars, routerVars, pipeVars, sentVars, connVars, respVars, permVars, foVars, lockVars, taskVars, bufVars>>

\* execute_on: the reply is no redirect (the `_ => {}` arm): Ok(result).
ExecOnReply(reply) ==
    /\ xpc = "exec_on"
    /\ nodes' = get_pool(nodes, xaddr)
    /\ sends' = sends + 1
    /\ xwire' = <<"CMD">>
    /\ Return(XOk(reply, "reply"))
    /\ UNCHANGED <<slot_map, read_from_replicas, xcmd, xaddr, redirects_left,
                   followed, xvia, last_moved>>
    /\ UNCHANGED <<poolVars, routerVars, pipeVars, sentVars, connVars, respVars, permVars, foVars, lockVars, taskVars, bufVars>>

\* execute_on, Moved arm: out of budget is a Cluster error; else update the
\* slot map, drop the guard and call execute_on(new_addr, redirects_left - 1).
ExecOnMoved(slot, addr) ==
    /\ xpc = "exec_on"
    /\ nodes' = get_pool(nodes, xaddr)
    /\ sends' = sends + 1
    /\ IF redirects_left = 0
           THEN /\ Return(XErr("Cluster", "moved_exhausted"))
                /\ xwire' = <<"CMD">>
                /\ UNCHANGED <<slot_map, xaddr, redirects_left, followed, xvia,
                               last_moved>>
           ELSE /\ slot_map' = update_slot_master(slot_map, slot, addr)
                /\ last_moved' = [slot |-> slot, addr |-> addr]
                /\ xaddr' = addr
                /\ redirects_left' = redirects_left - 1
                /\ followed' = followed + 1
                /\ xvia' = "moved"
                /\ xwire' = <<>>
                /\ UNCHANGED <<xpc, xret>>
    /\ UNCHANGED <<read_from_replicas, xcmd>>
    /\ UNCHANGED <<poolVars, routerVars, pipeVars, sentVars, connVars, respVars, permVars, foVars, lockVars, taskVars, bufVars>>

\* An Ask arm that records the new node in the slot map as the Moved arm does.
ExecOnAsk_updates_map(addr) ==
    /\ xpc = "exec_on"
    /\ nodes' = get_pool(nodes, xaddr)
    /\ sends' = sends + 1
    /\ IF redirects_left = 0
           THEN /\ Return(XErr("Cluster", "ask_exhausted"))
                /\ xwire' = <<"CMD">>
                /\ UNCHANGED <<slot_map, xaddr, followed, xvia>>
           ELSE /\ xpc' = "ask_asking"
                /\ slot_map' = IF xcmd.slot = NoSlot THEN slot_map
                               ELSE update_slot_master(slot_map, xcmd.slot, addr)
                /\ xaddr' = addr
                /\ followed' = followed + 1
                /\ xvia' = "ask"
                /\ xwire' = <<>>
                /\ UNCHANGED xret
    /\ UNCHANGED <<read_from_replicas, xcmd, redirects_left, last_moved>>
    /\ UNCHANGED <<poolVars, routerVars, pipeVars, sentVars, connVars, respVars, permVars, foVars, lockVars, taskVars, bufVars>>

\* execute_on, Ask arm, first part: out of budget is a Cluster error; else
\* drop the guard and turn to the node named in the reply. The budget is
\* not decremented and the slot of the reply is not looked at.
ExecOnAsk(addr) ==
    /\ xpc = "exec_on"
    /\ nodes' = get_pool(nodes, xaddr)
    /\ sends' = sends + 1
    /\ IF redirects_left = 0
           THEN /\ Return(XErr("Cluster", "ask_exhausted"))
                /\ xwire' = <<"CMD">>
                /\ UNCHANGED <<xaddr, followed, xvia>>
           ELSE /\ xpc' = "ask_asking"
                /\ xaddr' = addr
                /\ followed' = followed + 1
                /\ xvia' = "ask"
                /\ xwire' = <<>>
                /\ UNCHANGED xret
    /\ UNCHANGED <<slot_map, read_from_replicas, xcmd, redirects_left, last_moved>>
    /\ UNCHANGED <<poolVars, routerVars, pipeVars, sentVars, connVars, respVars, permVars, foVars, lockVars, taskVars, bufVars>>

\* A ClusterDown arm that hands the reply back as a value.
ExecOnClusterDown_as_reply ==
    /\ xpc = "exec_on"
    /\ nodes' = get_pool(nodes, xaddr)
    /\ sends' = sends + 1
    /\ xwire' = <<"CMD">>
    /\ Return(XOk("clusterdown", "clusterdown"))
    /\ UNCHANGED <<slot_map, read_from_replicas, xcmd, xaddr, redirects_left,
                   followed, xvia, last_moved>>
    /\ UNCHANGED <<poolVars, routerVars, pipeVars, sentVars, connVars, respVars, permVars, foVars, lockVars, taskVars, bufVars>>

\* execute_on, ClusterDown arm: Err(Cluster(msg)).
ExecOnClusterDown ==
    /\ xpc = "exec_on"
    /\ nodes' = get_pool(nodes, xaddr)
    /\ sends' = sends + 1
    /\ xwire' = <<"CMD">>
    /\ Return(XErr("Cluster", "clusterdown"))
    /\ UNCHANGED <<slot_map, read_from_replicas, xcmd, xaddr, redirects_left,
                   followed, xvia, last_moved>>
    /\ UNCHANGED <<poolVars, routerVars, pipeVars, sentVars, connVars, respVars, permVars, foVars, lockVars, taskVars, bufVars>>

\* A TryAgain arm that retries with the budget it was given.
ExecOnTryAgain_keeps_budget ==
    /\ xpc = "exec_on"
    /\ nodes' = get_pool(nodes, xaddr)
    /\ sends' = sends + 1
    /\ IF redirects_left = 0
           THEN /\ Return(XErr("Redis", "tryagain_exhausted"))
                /\ xwire' = <<"CMD">>
                /\ UNCHANGED <<redirects_left, followed, xvia>>
           ELSE /\ redirects_left' = redirects_left
                /\ followed' = followed + 1
                /\ xvia' = "tryagain"
                /\ xwire' = <<>>
                /\ UNCHANGED <<xpc, xret>>
    /\ UNCHANGED <<slot_map, read_from_replicas, xcmd, xaddr, last_moved>>
    /\ UNCHANGED <<poolVars, routerVars, pipeVars, sentVars, connVars, respVars, permVars, foVars, lockVars, taskVars, bufVars>>

\* execute_on, TryAgain arm: out of budget is PyrsedisError::redis(msg);
\* else drop the guard, sleep, call execute_on(addr, redirects_left - 1).
ExecOnTryAgain ==
    /\ xpc = "exec_on"
    /\ nodes' = get_pool(nodes, xaddr)
    /\ sends' = sends + 1
    /\ IF redirects_left = 0
           THEN /\ Return(XErr("Redis", "tryagain_exhausted"))
                /\ xwire' = <<"CMD">>
                /\ UNCHANGED <<redirects_left, followed, xvia>>
           ELSE /\ redirects_left' = redirects_left - 1
                /\ followed' = followed + 1
                /\ xvia' = "tryagain"
                /\ xwire' = <<>>
                /\ UNCHANGED <<xpc, xret>>
    /\ UNCHANGED <<slot_map, read_from_replicas, xcmd, xaddr, last_moved>>
    /\ UNCHANGED <<poolVars, routerVars, pipeVars, sentVars, connVars, respVars, permVars, foVars, lockVars, taskVars, bufVars>>

\* execute_on, Ask arm, second part: get a guard from the target's pool,
\* send ASKING on it, read its reply and drop the reply.
AskAskingOk ==
    /\ xpc = "ask_asking"
    /\ nodes' = get_pool(nodes, xaddr)
    /\ xwire' = <<"ASKING">>
    /\ xpc' = "ask_cmd"
    /\ UNCHANGED <<slot_map, read_from_replicas, xcmd, xaddr, redirects_left,
                   sends, followed, xvia, xret, last_moved>>
    /\ UNCHANGED <<poolVars, routerVars, pipeVars, sentVars, connVars, respVars, permVars, foVars, lockVars, taskVars, bufVars>>

\* The target's pool.get(), the send of ASKING or the read of its reply fails.
AskAskingErr ==
    /\ xpc = "ask_asking"
    /\ nodes' = get_pool(nodes, xaddr)
    /\ \E sent \in BOOLEAN : xwire' = IF sent THEN <<"ASKING">> ELSE <<>>
    /\ Return(XErr("Connection", "io"))
    /\ UNCHANGED <<slot_map, read_from_replicas, xcmd, xaddr, redirects_left,
                   sends, followed, xvia, last_moved>>
    /\ UNCHANGED <<poolVars, routerVars, pipeVars, sentVars, connVars, respVars, permVars, foVars, lockVars, taskVars, bufVars>>

\* execute_on, Ask arm, last part: send the command on the same guard and
\* return target_guard.conn().read_response().await, whatever the reply is.
AskCommand(reply) ==
    /\ xpc = "ask_cmd"
    /\ xwire' = Append(xwire, "CMD")
    /\ sends' = sends + 1
    /\ Return(XOk(reply, "ask_reply"))
    /\ UNCHANGED <<slot_map, nodes, read_from_replicas, xcmd, xaddr,
                   redirects_left, followed, xvia, last_moved>>
    /\ UNCHANGED <<poolVars, routerVars, pipeVars, sentVars, connVars, respVars, permVars, foVars, lockVars, taskVars, bufVars>>

AskCommandErr ==
    /\ xpc = "ask_cmd"
    /\ xwire' = Append(xwire, "CMD")
    /\ sends' = sends + 1
    /\ Return(XErr("Connection", "io"))
    /\ UNCHANGED <<slot_map, nodes, read_from_replicas, xcmd, xaddr,
                   redirects_left, followed, xvia, last_moved>>
    /\ UNCHANGED <<poolVars, routerVars, pipeVars, sentVars, connVars, respVars, permVars, foVars, lockVars, taskVars, bufVars>>

\* The background task's refresh_slots_from(addr), addr a node of the
\* registry, when it succeeds: pools for every node of the new map, then the
\* new map in place of the old. A refresh that fails changes nothing.
Refresh(new_map) ==
    /\ nodes # {}
    /\ nodes' = nodes \cup map_addrs(new_map)
    /\ slot_map' = new_map
    /\ last_moved' = NoMove
    /\ UNCHANGED <<read_from_replicas, xpc, xcmd, xaddr, redirects_left, sends,
                   followed, xvia, xwire, xret>>
    /\ UNCHANGED <<poolVars, routerVars, pipeVars, sentVars, connVars, respVars, permVars, foVars, lockVars, taskVars, bufVars>>

\* The steps of an execute call.
CallStep ==
    \/ ExecOnGetErr
    \/ ExecOnIoErr
    \/ \E reply \in PlainReplies : ExecOnReply(reply)
    \/ \E slot \in Slots, addr \in Addrs : ExecOnMoved(slot, addr)
    \/ \E addr \in Addrs : ExecOnAsk(addr)
    \/ ExecOnClusterDown
    \/ ExecOnTryAgain
    \/ AskAskingOk
    \/ AskAskingErr
    \/ \E reply \in AllReplies : AskCommand(reply)
    \/ AskCommandErr

ClusterNext ==
    \/ \E cmd \in Commands : ExecuteRouted(cmd)
    \/ CallStep
    \/ \E new_map \in ClusterSlotsReplies : Refresh(new_map)

ClusterStart ==
    NoPool /\ ClusterInit /\ NoPipe /\ NoSentinel /\ NoConnecting /\ NoReading /\ NoPipelines /\ NoFailovers /\ NoLocking /\ NoTask /\ NoBuffer

ClusterSpec == ClusterStart /\ [][ClusterNext]_vars

\* Each node answers each command, and the call is polled until it returns.
\* Nothing makes a caller start a call, nor the cluster change its slots.
ClusterFair == ClusterSpec /\ WF_vars(CallStep)

\* --------------------------------------------------- cluster properties
\* The call is between its first send and its return.
InCall == xpc \in {"exec_on", "ask_asking", "ask_cmd"}

\* The slot of the last MOVED lies in a range of the slot map.
MovedSlotInRange == range_of(slot_map, last_moved.slot) # 0

\* execute_routed sends the command to the primary of its slot: the command
\* is not a read that goes to a replica.
RoutesToPrimary ==
    ~(xcmd.read /\ read_from_replicas
        /\ slot_map[range_of(slot_map, xcmd.slot)].replicas # <<>>)

\* A call that execute_routed has just routed, to a node or to none, and
\* whose key hashes to the slot of the last MOVED.
RoutedAfterMoved ==
    /\ xvia = "route"
    /\ xpc = "exec_on" \/ xret.why = "no_node"
    /\ last_moved # NoMove
    /\ xcmd.slot = last_moved.slot

\* C5 as stated: after a followed MOVED s a, and with no refresh since, the
\* range that holds s has primary a, the retry goes to a, and every later
\* command whose key hashes to s goes to a on its first send.
C5_LaterCommandToA ==
    /\ (last_moved # NoMove /\ MovedSlotInRange)
         => master_for_slot(slot_map, last_moved.slot) = last_moved.addr
    /\ (xpc = "exec_on" /\ xvia = "moved" /\ last_moved # NoMove)
         => xaddr = last_moved.addr
    /\ RoutedAfterMoved => xaddr = last_moved.addr

\* C5 amended: after a followed MOVED s a, and with no refresh since, the
\* range that holds s (if the map has one) has primary a before the retry,
\* the retry goes to a, and a later command whose key hashes to s goes to a
\* on its first send when some range holds s and the command is routed to the
\* primary (it is no read-only command sent to a replica of that range).
C5_MovedRouting ==
    /\ (last_moved # NoMove /\ MovedSlotInRange)
         => master_for_slot(slot_map, last_moved.slot) = last_moved.addr
    /\ (xpc = "exec_on" /\ xvia = "moved" /\ last_moved # NoMove)
         => xaddr = last_moved.addr
    /\ (RoutedAfterMoved /\ MovedSlotInRange /\ RoutesToPrimary)
         => (xpc = "exec_on" /\ xaddr = last_moved.addr)

\* A later command goes, on its first send, to a node that only the MOVED
\* made the primary of its slot.
C5_Witness ==
    /\ RoutedAfterMoved
    /\ xpc = "exec_on"
    /\ sends = 0
    /\ xaddr = last_moved.addr
    /\ \A m \in ClusterSlotsReplies : \A i \in 1..Len(m) : m[i].master # xaddr

Expired(conn) == now - conn.last_used > IdleTimeout

\* The position of the connection nearest the back of the deque that is not
\* expired, 0 when every connection is.
LastFresh(q) ==
    LET fresh == {i \in 1..Len(q) : ~Expired(q[i])}
    IN  IF fresh = {} THEN 0 ELSE CHOOSE i \in fresh : \A j \in fresh : j <= i

\* C11: a connection get() hands out, from the deque or newly opened, is not
\* expired; the connections a checkout pops and does not hand out are
\* expired and are not in the deque afterwards; a guard dropped with an
\* expired connection leaves the deque as it was; and a checkout that finds
\* every idle connection expired empties the deque and goes on to open a new
\* connection.
C11_NoStaleHandout ==
    [][\A t \in Tasks :
        /\ (pc[t] \in {"acquired", "creating"} /\ pc'[t] = "guard")
             => (now' - gconn'[t].last_used <= IdleTimeout
                   /\ \A i \in 1..Len(idle') : idle'[i].id # gconn'[t].id)
        /\ (pc[t] = "acquired" /\ pc'[t] # "acquired")
             => /\ Len(idle') <= Len(idle)
                /\ idle' = SubSeq(idle, 1, Len(idle'))
                /\ \A i \in (Len(idle') + 1)..Len(idle) :
                      idle[i] = gconn'[t] \/ Expired(idle[i])
        /\ (pc[t] = "guard" /\ pc'[t] = "dropped" /\ Expired(gconn[t]))
             => idle' = idle
        /\ (pc[t] = "acquired" /\ pc'[t] # "acquired"
              /\ \A i \in 1..Len(idle) : Expired(idle[i]))
             => (pc'[t] = "creating" /\ idle' = <<>>)]_vars

\* C11 witness: a checkout is about to open a connection although one was
\* opened before: that one was discarded as expired, it is in no guard, was
\* not taken and is not in the deque.
C11_Witness ==
    /\ \E t \in Tasks : pc[t] = "creating"
    /\ next_id > 1
    /\ now > IdleTimeout
    /\ idle = <<>>
    /\ taken_out = {}
    /\ \A u \in Tasks : gconn[u] = NoConn

\* C12: a checkout hands out the connection nearest the back of the deque
\* that is not expired and leaves the connections before it in place; it goes
\* on to open a connection only when no idle connection is unexpired; a
\* guard dropped with an unexpired connection pushes it at the back. So a
\* checkout right after a release gets the connection released.
C12_LifoReuse ==
    [][\A t \in Tasks :
        /\ (pc[t] = "acquired" /\ pc'[t] # "acquired")
             => IF LastFresh(idle) = 0
                    THEN pc'[t] = "creating" /\ idle' = <<>>
                    ELSE /\ pc'[t] = "guard"
                         /\ gconn'[t] = idle[LastFresh(idle)]
                         /\ idle' = SubSeq(idle, 1, LastFresh(idle) - 1)
        /\ (pc[t] = "guard" /\ pc'[t] = "dropped" /\ ~Expired(gconn[t])
              /\ Len(idle) < max_size)
             => idle' = Append(idle, gconn[t])]_vars

\* C12 witness: only one connection was ever opened, no time has passed, one
\* task has just dropped its guard and another task holds a guard: it holds
\* the connection the first one released.
C12_Witness ==
    \E t, u \in Tasks :
        /\ pc[u] = "dropped"
        /\ pc[t] = "guard"
        /\ gconn[t].id = 1
        /\ next_id = 2
        /\ now = 0
        /\ taken_out = {}

\* ============================================= ClusterRouter::pipeline
\* Pipeline calls made in one run.
MaxPipeCalls == 2
MaxPipeRedirects == 1

\* The locals of an execute_on call.
xVars == <<xpc, xcmd, xaddr, redirects_left, sends, followed, xvia, xwire, xret>>

\* The batches a caller may pass: up to MaxCmds commands.
Batches == UNION {[1..n -> Commands] : n \in 0..MaxCmds}

\* The (idx, cmd_args) pairs pushed to groups[addr], in the order of the
\* batch: the commands that the routing rule sends to addr.
RECURSIVE group_for(_, _, _)
group_for(cmds, addr, i) ==
    IF i > Len(cmds) THEN <<>>
    ELSE (IF route(slot_map, cmds[i], read_from_replicas) = addr THEN <<i>> ELSE <<>>)
             \o group_for(cmds, addr, i + 1)

\* The replies a node owes for the commands of a group, in the order sent.
group_frames(group) == [k \in 1..Len(group) |-> [call |-> pcall, idx |-> group[k]]]

\* The index of the command the read loop is at.
cur_idx == pgroups[pcur][ppos]

\* pool.get() on a node's pool: the idle connection with whatever is unread
\* on it, or a new connection when there is none or it is stale.
checkout(addr) == nconn[addr]

\* pipeline(commands): group the commands by target node.
PipelineCall(cmds) ==
    /\ ppc \in {"idle", "done"}
    /\ xpc \in {"idle", "done"}
    /\ pcall < MaxPipeCalls
    /\ pcall' = pcall + 1
    /\ pcmds' = cmds
    /\ pgroups' = [a \in Addrs \cup {NoAddr} |-> group_for(cmds, a, 1)]
    /\ ptodo' = {a \in Addrs \cup {NoAddr} : pgroups'[a] # <<>>}
    /\ presults' = [i \in 1..Len(cmds) |-> NoFrame]
    /\ pret' = NoPRet
    /\ ppc' = "groups"
    /\ pcur' = NoAddr
    /\ ppos' = 0
    /\ pguard' = <<>>
    /\ UNCHANGED <<nconn, predirs>>
    /\ UNCHANGED <<poolVars, routerVars, clusterVars, sentVars, connVars, respVars, permVars, foVars, lockVars, taskVars, bufVars>>

\* The group whose addr is empty: every command of it gets the error value
\* "no node for slot"; nothing is sent.
PipeNoNode ==
    /\ ppc = "groups"
    /\ NoAddr \in ptodo
    /\ presults' = [i \in 1..Len(pcmds) |->
                      IF \E k \in 1..Len(pgroups[NoAddr]) : pgroups[NoAddr][k] = i
                          THEN [call |-> pcall, idx |-> i, via |-> "no_node", node |-> NoAddr]
                          ELSE presults[i]]
    /\ ptodo' = ptodo \ {NoAddr}
    /\ UNCHANGED <<ppc, pcall, predirs, pcmds, pgroups, pcur, ppos, pguard, pret, nconn>>
    /\ UNCHANGED <<poolVars, routerVars, clusterVars, sentVars, connVars, respVars, permVars, foVars, lockVars, taskVars, bufVars>>

\* A group's turn: get a guard from the node's pool and send every command
\* of the group on it.
PipeSendGroup(addr) ==
    /\ ppc = "groups"
    /\ addr \in ptodo \ {NoAddr}
    /\ nodes' = get_pool(nodes, addr)
    /\ pguard' = checkout(addr) \o group_frames(pgroups[addr])
    /\ nconn' = [nconn EXCEPT ![addr] = <<>>]
    /\ pcur' = addr
    /\ ppos' = 1
    /\ ptodo' = ptodo \ {addr}
    /\ ppc' = "reading"
    /\ UNCHANGED <<pcall, pcmds, pgroups, presults, pret>>
    /\ UNCHANGED <<slot_map, read_from_replicas, xVars, last_moved>>
    /\ UNCHANGED <<poolVars, routerVars, sentVars, connVars, respVars, permVars, foVars, lockVars, taskVars, bufVars>>
    /\ UNCHANGED predirs

\* pool.get() or send_raw fails in a group's turn, or read_response fails in
\* its read loop: `?` returns the error. The connection of the guard, if
\* there was one, has failed and yields no further reply.
PipeIoErr ==
    /\ \/ ppc = "groups" /\ ptodo \ {NoAddr} # {}
       \/ ppc = "reading" /\ ppos <= Len(pgroups[pcur])
    /\ ppc' = "done"
    /\ pret' = [status |-> "err", val |-> <<>>]
    /\ pguard' = <<>>
    /\ UNCHANGED <<pcall, predirs, pcmds, pgroups, ptodo, pcur, ppos, presults, nconn>>
    /\ UNCHANGED <<poolVars, routerVars, clusterVars, sentVars, connVars, respVars, permVars, foVars, lockVars, taskVars, bufVars>>

\* The read loop reads a reply that is neither a well-formed MOVED nor a
\* well-formed ASK: it is stored at the command's index.
PipeRead ==
    /\ ppc = "reading"
    /\ ppos <= Len(pgroups[pcur])
    /\ presults' = [presults EXCEPT ![cur_idx] =
                      [call |-> Head(pguard).call, idx |-> Head(pguard).idx,
                       via |-> "pipe", node |-> pcur]]
    /\ pguard' = Tail(pguard)
    /\ ppos' = ppos + 1
    /\ UNCHANGED <<ppc, pcall, predirs, pcmds, pgroups, ptodo, pcur, pret, nconn>>
    /\ UNCHANGED <<poolVars, routerVars, clusterVars, sentVars, connVars, respVars, permVars, foVars, lockVars, taskVars, bufVars>>

\* execute_on has returned: its locals are gone, and the MOVED replies it
\* and the read loop saw are those of a retry that is over.
XReset ==
    /\ last_moved' = NoMove
    /\ xpc' = "idle"
    /\ xcmd' = [slot |-> NoSlot, read |-> FALSE]
    /\ xaddr' = NoAddr
    /\ redirects_left' = MAX_REDIRECTS
    /\ sends' = 0
    /\ followed' = 0
    /\ xvia' = "route"
    /\ xwire' = <<>>
    /\ xret' = NoXRet

\* A Moved arm of the read loop that retries with the whole budget.
PipeReadMoved_full_budget(slot, addr) ==
    /\ ppc = "reading"
    /\ ppos <= Len(pgroups[pcur])
    /\ predirs < MaxPipeRedirects
    /\ predirs' = predirs + 1
    /\ pguard' = Tail(pguard)
    /\ slot_map' = update_slot_master(slot_map, slot, addr)
    /\ last_moved' = [slot |-> slot, addr |-> addr]
    /\ xpc' = "exec_on"
    /\ xcmd' = pcmds[cur_idx]
    /\ xaddr' = addr
    /\ redirects_left' = MAX_REDIRECTS
    /\ sends' = 0
    /\ followed' = 0
    /\ xvia' = "moved"
    /\ xwire' = <<>>
    /\ xret' = NoXRet
    /\ ppc' = "retry"
    /\ UNCHANGED <<pcall, pcmds, pgroups, ptodo, pcur, ppos, presults, pret, nconn>>
    /\ UNCHANGED <<nodes, read_from_replicas>>
    /\ UNCHANGED <<poolVars, routerVars, sentVars, connVars, respVars, permVars, foVars, lockVars, taskVars, bufVars>>

\* The read loop reads a well-formed MOVED: update_slot_master, then
\* execute_on(new_addr, args, MAX_REDIRECTS - 1) while the group's guard is
\* held.
PipeReadMoved(slot, addr) ==
    /\ ppc = "reading"
    /\ ppos <= Len(pgroups[pcur])
    /\ predirs < MaxPipeRedirects
    /\ predirs' = predirs + 1
    /\ pguard' = Tail(pguard)
    /\ slot_map' = update_slot_master(slot_map, slot, addr)
    /\ last_moved' = [slot |-> slot, addr |-> addr]
    /\ xpc' = "exec_on"
    /\ xcmd' = pcmds[cur_idx]
    /\ xaddr' = addr
    /\ redirects_left' = MAX_REDIRECTS - 1
    /\ sends' = 0
    /\ followed' = 0
    /\ xvia' = "moved"
    /\ xwire' = <<>>
    /\ xret' = NoXRet
    /\ ppc' = "retry"
    /\ UNCHANGED <<pcall, pcmds, pgroups, ptodo, pcur, ppos, presults, pret, nconn>>
    /\ UNCHANGED <<nodes, read_from_replicas>>
    /\ UNCHANGED <<poolVars, routerVars, sentVars, connVars, respVars, permVars, foVars, lockVars, taskVars, bufVars>>

\* execute_on returned Ok(reply): the reply is stored at the command's index
\* and the read loop goes on.
PipeRetryOk ==
    /\ ppc = "retry"
    /\ xpc = "done"
    /\ xret.status = "ok"
    /\ presults' = [presults EXCEPT ![cur_idx] =
                      [call |-> pcall, idx |-> cur_idx, via |-> "retry", node |-> xaddr]]
    /\ ppos' = ppos + 1
    /\ ppc' = "reading"
    /\ XReset
    /\ UNCHANGED <<pcall, predirs, pcmds, pgroups, ptodo, pcur, pguard, pret, nconn>>
    /\ UNCHANGED <<slot_map, nodes, read_from_replicas>>
    /\ UNCHANGED <<poolVars, routerVars, sentVars, connVars, respVars, permVars, foVars, lockVars, taskVars, bufVars>>

\* execute_on returned Err: `?` returns it from pipeline. The group's guard
\* is dropped, and its connection goes back to the node's pool with the
\* replies of the group that were not read.
PipeRetryErr ==
    /\ ppc = "retry"
    /\ xpc = "done"
    /\ xret.status = "err"
    /\ ppc' = "done"
    /\ pret' = [status |-> "err", val |-> <<>>]
    /\ nconn' = [nconn EXCEPT ![pcur] = pguard]
    /\ pguard' = <<>>
    /\ XReset
    /\ UNCHANGED <<pcall, predirs, pcmds, pgroups, ptodo, pcur, ppos, presults>>
    /\ UNCHANGED <<slot_map, nodes, read_from_replicas>>
    /\ UNCHANGED <<poolVars, routerVars, sentVars, connVars, respVars, permVars, foVars, lockVars, taskVars, bufVars>>

\* The read loop reads a well-formed ASK: on a guard of the target's pool,
\* ASKING is sent and one reply read and dropped, the command is sent and one
\* reply read and stored at the command's index. The target's guard is
\* dropped at the end of the arm.
PipeReadAsk(addr) ==
    /\ ppc = "reading"
    /\ ppos <= Len(pgroups[pcur])
    /\ predirs < MaxPipeRedirects
    /\ predirs' = predirs + 1
    /\ pguard' = Tail(pguard)
    /\ nodes' = get_pool(nodes, addr)
    /\ LET tg == checkout(addr)
                   \o <<[call |-> pcall, idx |-> 0], [call |-> pcall, idx |-> cur_idx]>>
       IN  /\ presults' = [presults EXCEPT ![cur_idx] =
                             [call |-> tg[2].call, idx |-> tg[2].idx, via |-> "ask", node |-> addr]]
           /\ nconn' = [nconn EXCEPT ![addr] = Tail(Tail(tg))]
    /\ ppos' = ppos + 1
    /\ UNCHANGED <<ppc, pcall, pcmds, pgroups, ptodo, pcur, pret>>
    /\ UNCHANGED <<slot_map, read_from_replicas, xVars, last_moved>>
    /\ UNCHANGED <<poolVars, routerVars, sentVars, connVars, respVars, permVars, foVars, lockVars, taskVars, bufVars>>

\* The Ask arm fails (the target's pool.get(), a send or a read): `?`
\* returns the error from pipeline, and the group's guard is dropped with the
\* replies of the group that were not read.
PipeAskErr(addr) ==
    /\ ppc = "reading"
    /\ ppos <= Len(pgroups[pcur])
    /\ predirs < MaxPipeRedirects
    /\ predirs' = predirs + 1
    /\ nodes' = get_pool(nodes, addr)
    /\ ppc' = "done"
    /\ pret' = [status |-> "err", val |-> <<>>]
    /\ nconn' = [nconn EXCEPT ![pcur] = Tail(pguard)]
    /\ pguard' = <<>>
    /\ UNCHANGED <<pcall, pcmds, pgroups, ptodo, pcur, ppos, presults>>
    /\ UNCHANGED <<slot_map, read_from_replicas, xVars, last_moved>>
    /\ UNCHANGED <<poolVars, routerVars, sentVars, connVars, respVars, permVars, foVars, lockVars, taskVars, bufVars>>

\* The read loop of a group is over: its guard is dropped and the connection
\* goes back to the node's pool.
PipeGroupDone ==
    /\ ppc = "reading"
    /\ ppos > Len(pgroups[pcur])
    /\ nconn' = [nconn EXCEPT ![pcur] = pguard]
    /\ pguard' = <<>>
    /\ ppc' = "groups"
    /\ UNCHANGED <<pcall, predirs, pcmds, pgroups, ptodo, pcur, ppos, presults, pret>>
    /\ UNCHANGED <<poolVars, routerVars, clusterVars, sentVars, connVars, respVars, permVars, foVars, lockVars, taskVars, bufVars>>

\* Every group was visited: Ok(results), a None unwrapped to Null.
PipeFinish ==
    /\ ppc = "groups"
    /\ ptodo = {}
    /\ pret' = [status |-> "ok",
                val |-> [i \in 1..Len(presults) |->
                           IF presults[i] = NoFrame
                               THEN [call |-> 0, idx |-> 0, via |-> "null", node |-> NoAddr]
                               ELSE presults[i]]]
    /\ ppc' = "done"
    /\ UNCHANGED <<pcall, predirs, pcmds, pgroups, ptodo, pcur, ppos, pguard, presults, nconn>>
    /\ UNCHANGED <<poolVars, routerVars, clusterVars, sentVars, connVars, respVars, permVars, foVars, lockVars, taskVars, bufVars>>

PipeNext ==
    \/ \E cmds \in Batches : PipelineCall(cmds)
    \/ PipeNoNode
    \/ \E addr \in Addrs : PipeSendGroup(addr)
    \/ PipeIoErr
    \/ PipeRead
    \/ \E slot \in Slots, addr \in Addrs : PipeReadMoved(slot, addr)
    \/ PipeRetryOk
    \/ PipeRetryErr
    \/ \E addr \in Addrs : PipeReadAsk(addr)
    \/ \E addr \in Addrs : PipeAskErr(addr)
    \/ PipeGroupDone
    \/ PipeFinish
    \/ CallStep

PipeSpec == ClusterStart /\ [][PipeNext]_vars

\* -------------------------------------------------- pipeline properties
\* C13 as stated: a pipeline that returns Ok returns one value per command,
\* and the value at index i is the reply to command i of that call, read
\* from the node or returned by its redirected retry.
C13_Positional ==
    pret.status = "ok"
        => /\ Len(pret.val) = Len(pcmds)
           /\ \A i \in 1..Len(pcmds) :
                 pret.val[i].call = pcall /\ pret.val[i].idx = i

\* The replies that make execute_on refuse to follow a redirect.
Exhausted == {"moved_exhausted", "ask_exhausted", "tryagain_exhausted"}

\* C14: a well-formed MOVED read by the read loop updates the slot map with
\* update_slot_master and starts execute_on for that one command on the node
\* the MOVED names, with MAX_REDIRECTS - 1 redirects to spend; the retry
\* follows at most four redirects; what it returns is stored at the index of
\* the command, and only there, and the read loop goes on with the next
\* command. A well-formed ASK is retried on the node it names, and the reply
\* of that node is stored at the index of the command, and only there.
C14_RetriedSingly ==
    /\ [](ppc = "retry" =>
            /\ followed <= MAX_REDIRECTS - 1
            /\ sends <= followed + 1
            /\ redirects_left \in 0..(MAX_REDIRECTS - 1)
            /\ xcmd = pcmds[cur_idx]
            /\ xret.why \in Exhausted => followed = MAX_REDIRECTS - 1)
    /\ [][(ppc = "reading" /\ ppc' = "retry") =>
            /\ slot_map' = update_slot_master(slot_map, last_moved'.slot, last_moved'.addr)
            /\ last_moved'.addr \in Addrs
            /\ xaddr' = last_moved'.addr
            /\ xcmd' = pcmds[cur_idx]
            /\ redirects_left' = MAX_REDIRECTS - 1
            /\ followed' = 0 /\ sends' = 0
            /\ presults' = presults]_vars
    /\ [][(ppc = "retry" /\ ppc' = "reading") =>
            /\ xret.status = "ok"
            /\ presults'[cur_idx] =
                   [call |-> pcall, idx |-> cur_idx, via |-> "retry", node |-> xaddr]
            /\ \A i \in 1..Len(pcmds) : i # cur_idx => presults'[i] = presults[i]
            /\ ppos' = ppos + 1 /\ pcur' = pcur]_vars
    /\ [][(ppc = "retry" /\ ppc' = "done") =>
            xret.status = "err" /\ pret'.status = "err"]_vars
    /\ [][(ppc = "reading" /\ ppc' = "reading" /\ predirs' # predirs) =>
            /\ presults'[cur_idx].via = "ask"
            /\ presults'[cur_idx].node \in Addrs
            /\ presults'[cur_idx].node \in nodes'
            /\ \A i \in 1..Len(pcmds) : i # cur_idx => presults'[i] = presults[i]
            /\ slot_map' = slot_map
            /\ ppos' = ppos + 1 /\ pcur' = pcur]_vars

\* C14 witness: the retry of the second command of a batch has followed four
\* redirects and fails on the fifth.
C14_Witness ==
    /\ ppc = "retry"
    /\ ppos = 2
    /\ xpc = "done"
    /\ followed = MAX_REDIRECTS - 1
    /\ xret.why \in Exhausted
    /\ presults[pgroups[pcur][1]].via = "pipe"

\* -------------------------------------------------- replica routing
\* Slot maps with two replicas in a range, for replica_for_slot's choice.
ReplicaMaps ==
    {<<SlotRange(0, MaxSlot, 1, reps)>> : reps \in {<<>>, <<2>>, <<2, 1>>, <<1, 2>>}}

\* The node the routing rule names for slot s of a range that contains it.
first_node(ranges, s, read, rfr) ==
    LET r == ranges[range_of(ranges, s)]
    IN  IF read /\ rfr /\ Len(r.replicas) >= 1
            THEN r.replicas[(s % Len(r.replicas)) + 1]
            ELSE r.master

MaxRetryCount == 2

\* Errors resolve_master can return: no sentinel reached in time, a sentinel
\* that does not know the master, a reply that does not parse.
ResolveErrors == {"Connection", "Timeout", "Sentinel", "Protocol"}

\* Errors pool.get() can return: with TLS asked for, create_connection
\* refuses; otherwise connecting or init fails. The permit can time out.
GetErrors == IF cfg_tls THEN {"Protocol", "Timeout"}
                        ELSE {"Connection", "Timeout", "Redis"}

\* Errors read_response can return.
ReadErrors == {"Connection", "Protocol"}

\* Replies of the master to the command.
SentReplies == {"value", "error", "readonly"}

\* resolve_master: a TCP connection to a sentinel, AUTH when a password is
\* configured, SENTINEL get-master-addr-by-name.
resolve_master(connected) ==
    /\ opened' = IF connected THEN opened \cup {"sentinel"} ELSE opened
    /\ auth_sent' = IF connected /\ cfg_password
                        THEN auth_sent \cup {"sentinel"} ELSE auth_sent

SentinelInit ==
    /\ spc = "new"
    /\ attempt = 0
    /\ ssends = 0
    /\ sleeps = 0
    /\ failovers = 0
    /\ slast_err = "none"
    /\ sret = [status |-> "none", val |-> "none"]
    /\ master_addr = NoAddr
    /\ retry_count \in 0..MaxRetryCount
    /\ cfg_password \in BOOLEAN
    /\ opened = {}
    /\ auth_sent = {}

\* SentinelRouter::new: the master is resolved and its pool created.
SentinelNew(addr) ==
    /\ spc = "new"
    /\ resolve_master(TRUE)
    /\ master_addr' = addr
    /\ spc' = "idle"
    /\ UNCHANGED <<attempt, ssends, sleeps, failovers, slast_err, sret, retry_count,
                   cfg_password>>
    /\ UNCHANGED <<poolVars, routerVars, clusterVars, pipeVars, connVars, respVars, permVars, foVars, lockVars, taskVars, bufVars>>

\* SentinelRouter::new fails: there is no router.
SentinelNewErr(kind, connected) ==
    /\ spc = "new"
    /\ kind \in {"Sentinel", "Protocol"} => connected
    /\ resolve_master(connected)
    /\ spc' = "failed"
    /\ UNCHANGED <<attempt, ssends, sleeps, failovers, slast_err, sret, master_addr,
                   retry_count, cfg_password>>
    /\ UNCHANGED <<poolVars, routerVars, clusterVars, pipeVars, connVars, respVars, permVars, foVars, lockVars, taskVars, bufVars>>

\* execute_with_retry is called: attempt 0 starts at current_pool().
SentExecute ==
    /\ spc \in {"idle", "done"}
    /\ spc' = "get"
    /\ attempt' = 0
    /\ ssends' = 0
    /\ sleeps' = 0
    /\ failovers' = 0
    /\ slast_err' = "none"
    /\ sret' = [status |-> "none", val |-> "none"]
    /\ UNCHANGED <<master_addr, retry_count, cfg_password, opened, auth_sent>>
    /\ UNCHANGED <<poolVars, routerVars, clusterVars, pipeVars, connVars, respVars, permVars, foVars, lockVars, taskVars, bufVars>>

\* A loop that goes on to a next attempt whatever the loop variable is.
continue_unbounded(e) ==
    /\ slast_err' = e
    /\ attempt' = attempt + 1 /\ spc' = "retry" /\ sret' = sret

\* `last_err = Some(e); continue`: the next value of the loop variable, or
\* the end of the loop and Err(last_err).
continue_with(e) ==
    /\ slast_err' = e
    /\ IF attempt < retry_count
           THEN attempt' = attempt + 1 /\ spc' = "retry" /\ sret' = sret
           ELSE attempt' = attempt /\ spc' = "done"
                /\ sret' = [status |-> "err", val |-> e]

\* attempt > 0: sleep, then failover() resolves the master and swaps the pool
\* when the address changed.
SentFailoverOk(addr) ==
    /\ spc = "retry"
    /\ sleeps' = sleeps + 1
    /\ failovers' = failovers + 1
    /\ resolve_master(TRUE)
    /\ master_addr' = addr
    /\ spc' = "get"
    /\ UNCHANGED <<attempt, ssends, slast_err, sret, retry_count, cfg_password>>
    /\ UNCHANGED <<poolVars, routerVars, clusterVars, pipeVars, connVars, respVars, permVars, foVars, lockVars, taskVars, bufVars>>

\* attempt > 0: sleep, then failover() fails.
SentFailoverErr(kind, connected) ==
    /\ spc = "retry"
    /\ kind \in {"Sentinel", "Protocol"} => connected
    /\ sleeps' = sleeps + 1
    /\ failovers' = failovers + 1
    /\ resolve_master(connected)
    /\ continue_with(kind)
    /\ UNCHANGED <<ssends, master_addr, retry_count, cfg_password>>
    /\ UNCHANGED <<poolVars, routerVars, clusterVars, pipeVars, connVars, respVars, permVars, foVars, lockVars, taskVars, bufVars>>

\* pool.get() returns a guard: an idle connection, or a new one that was
\* connected and initialised.
SentGetOk(fresh) ==
    /\ spc = "get"
    /\ ~cfg_tls
    /\ opened' = IF fresh THEN opened \cup {"master"} ELSE opened
    /\ auth_sent' = IF fresh /\ cfg_password THEN auth_sent \cup {"master"} ELSE auth_sent
    /\ spc' = "send"
    /\ UNCHANGED <<attempt, ssends, sleeps, failovers, slast_err, sret, master_addr,
                   retry_count, cfg_password>>
    /\ UNCHANGED <<poolVars, routerVars, clusterVars, pipeVars, connVars, respVars, permVars, foVars, lockVars, taskVars, bufVars>>

\* pool.get() returns Err(e).
SentGetErr(kind) ==
    /\ spc = "get"
    /\ kind \in GetErrors
    /\ continue_with(kind)
    /\ UNCHANGED <<ssends, sleeps, failovers, master_addr, retry_count, cfg_password,
                   opened, auth_sent>>
    /\ UNCHANGED <<poolVars, routerVars, clusterVars, pipeVars, connVars, respVars, permVars, foVars, lockVars, taskVars, bufVars>>

SentSendOk ==
    /\ spc = "send"
    /\ ssends' = ssends + 1
    /\ spc' = "read"
    /\ UNCHANGED <<attempt, sleeps, failovers, slast_err, sret, master_addr,
                   retry_count, cfg_password, opened, auth_sent>>
    /\ UNCHANGED <<poolVars, routerVars, clusterVars, pipeVars, connVars, respVars, permVars, foVars, lockVars, taskVars, bufVars>>

\* send_raw returns Err: write_all failed.
SentSendErr ==
    /\ spc = "send"
    /\ continue_with("Connection")
    /\ UNCHANGED <<ssends, sleeps, failovers, master_addr, retry_count, cfg_password,
                   opened, auth_sent>>
    /\ UNCHANGED <<poolVars, routerVars, clusterVars, pipeVars, connVars, respVars, permVars, foVars, lockVars, taskVars, bufVars>>

\* A read arm that takes every error reply for READONLY.
SentReadReply_any_error(reply) ==
    /\ spc = "read"
    /\ IF reply \in {"readonly", "error"}
           THEN continue_with(IF reply = "readonly" THEN "Readonly" ELSE "Redis")
           ELSE /\ spc' = "done"
                /\ sret' = [status |-> "ok", val |-> reply]
                /\ UNCHANGED <<attempt, slast_err>>
    /\ UNCHANGED <<ssends, sleeps, failovers, master_addr, retry_count, cfg_password,
                   opened, auth_sent>>
    /\ UNCHANGED <<poolVars, routerVars, clusterVars, pipeVars, connVars, respVars, permVars, foVars, lockVars, taskVars, bufVars>>

\* read_response returns Ok(resp): an error that starts with READONLY goes
\* on to the next attempt, anything else is returned.
SentReadReply(reply) ==
    /\ spc = "read"
    /\ IF reply = "readonly"
           THEN continue_with("Readonly")
           ELSE /\ spc' = "done"
                /\ sret' = [status |-> "ok", val |-> reply]
                /\ UNCHANGED <<attempt, slast_err>>
    /\ UNCHANGED <<ssends, sleeps, failovers, master_addr, retry_count, cfg_password,
                   opened, auth_sent>>
    /\ UNCHANGED <<poolVars, routerVars, clusterVars, pipeVars, connVars, respVars, permVars, foVars, lockVars, taskVars, bufVars>>

\* read_response returns Err(e): a Connection error goes on to the next
\* attempt, any other error is returned.
SentReadErr(kind) ==
    /\ spc = "read"
    /\ IF kind = "Connection"
           THEN continue_with(kind)
           ELSE /\ spc' = "done"
                /\ sret' = [status |-> "err", val |-> kind]
                /\ UNCHANGED <<attempt, slast_err>>
    /\ UNCHANGED <<ssends, sleeps, failovers, master_addr, retry_count, cfg_password,
                   opened, auth_sent>>
    /\ UNCHANGED <<poolVars, routerVars, clusterVars, pipeVars, connVars, respVars, permVars, foVars, lockVars, taskVars, bufVars>>

SentStep ==
    \/ \E addr \in Addrs : SentFailoverOk(addr)
    \/ \E kind \in ResolveErrors, connected \in BOOLEAN : SentFailoverErr(kind, connected)
    \/ \E fresh \in BOOLEAN : SentGetOk(fresh)
    \/ \E kind \in GetErrors : SentGetErr(kind)
    \/ SentSendOk
    \/ SentSendErr
    \/ \E reply \in SentReplies : SentReadReply(reply)
    \/ \E kind \in ReadErrors : SentReadErr(kind)

SentNext ==
    \/ \E addr \in Addrs : SentinelNew(addr)
    \/ \E kind \in ResolveErrors, connected \in BOOLEAN : SentinelNewErr(kind, connected)
    \/ SentExecute
    \/ SentStep

SentStart ==
    /\ PoolInit /\ cfg_tls \in BOOLEAN
    /\ NoCluster /\ NoPipe /\ NoConnecting /\ NoReading /\ NoPipelines /\ NoFailovers /\ NoLocking /\ NoTask /\ NoBuffer
    /\ SentinelInit

SentSpec == SentStart /\ [][SentNext]_vars

\* Each I/O step of a call returns. Nothing makes a caller start a call.
SentFair == SentSpec /\ WF_vars(SentStep)

\* The router, cluster or sentinel, a client is built on.
RoutersNext ==
    \/ spc = "none" /\ ClusterNext
    \/ SentNext

RoutersSpec == (ClusterStart \/ SentStart) /\ [][RoutersNext]_vars

\* -------------------------------------------------- sentinel properties
SentInCall == spc \in {"retry", "get", "send", "read"}

\* C16: a call makes at most retry_count + 1 attempts and sends its command
\* at most once per attempt; every attempt after the first is preceded by one
\* sleep and one failover(); a call that has used all its attempts returns
\* the last error; and every call returns.
C16_BoundedAttempts ==
    /\ [](attempt \in 0..retry_count)
    /\ [](ssends <= attempt + 1 /\ ssends <= retry_count + 1)
    /\ [](spc \in {"get", "send", "read", "done"} =>
              sleeps = attempt /\ failovers = attempt)
    /\ [](spc = "retry" => sleeps = attempt - 1 /\ failovers = attempt - 1)
    /\ [][(SentInCall /\ spc' = "done") =>
              \/ spc = "read" /\ sret'.status = "ok"
              \/ spc = "read" /\ sret'.status = "err" /\ sret'.val \in ReadErrors \ {"Connection"}
              \/ attempt = retry_count /\ sret'.status = "err" /\ sret'.val = slast_err'
                   /\ slast_err' # "none"]_vars
    /\ SentInCall ~> (spc = "done")

\* C16 witness: a call with the largest retry_count has sent its command in
\* every attempt and returns the error of the last one.
C16_Witness ==
    /\ spc = "done"
    /\ retry_count = MaxRetryCount
    /\ attempt = retry_count
    /\ ssends = retry_count + 1
    /\ sleeps = retry_count
    /\ failovers = retry_count
    /\ sret.status = "err"

\* C17 as stated: a further attempt is started only after a Connection
\* error or a READONLY reply.
C17_RetryOnlyTransport ==
    [][(spc' = "retry" /\ attempt' = attempt + 1)
          => slast_err' \in {"Connection", "Readonly"}]_vars

\* C18: an error reply that is neither a redirect nor READONLY is returned
\* to the caller by the step that reads it: the sentinel router starts no
\* further attempt, sleep or failover and keeps its master, and a first
\* attempt has sent the command once; the cluster router leaves its slot map
\* as it is, follows no redirect, and a call that followed none has sent
\* the command once.
C18_ErrorDelivered ==
    /\ [][(spc = "read" /\ spc' = "retry") => slast_err' \in {"Connection", "Readonly"}]_vars
    /\ [][(spc = "read" /\ sret'.status = "ok") =>
              /\ spc' = "done"
              /\ sret'.val \in {"value", "error"}
              /\ UNCHANGED <<attempt, ssends, sleeps, failovers, master_addr>>]_vars
    /\ []((spc = "done" /\ sret.status = "ok" /\ attempt = 0) =>
              ssends = 1 /\ sleeps = 0 /\ failovers = 0)
    /\ [][(xpc = "exec_on" /\ xret'.status = "ok" /\ xret'.why = "reply") =>
              /\ xpc' = "done"
              /\ xret'.reply \in PlainReplies
              /\ sends' = sends + 1
              /\ UNCHANGED <<slot_map, followed, redirects_left, xaddr>>]_vars
    /\ []((xpc = "done" /\ xret.status = "ok" /\ xret.why = "reply" /\ followed = 0) =>
              sends = 1)

\* C18 witness: the sentinel router returned an error reply as the value of
\* a call that sent its command once.
C18_Witness ==
    /\ spc = "done"
    /\ sret = [status |-> "ok", val |-> "error"]
    /\ attempt = 0
    /\ ssends = 1
    /\ sleeps = 0

\* C19 as stated: with tls = true no TCP connection is opened and no AUTH
\* is sent, to the master or to a sentinel.
C19_NoPlaintext ==
    cfg_tls => (opened = {} /\ auth_sent = {})

\* ============================================ create_connection and init
MaxDb == 2

\* What init has put on the wire: the command, whether AUTH carried the
\* username, and the reply read for it ("pending" while none).
Sent(cmd, user) == [cmd |-> cmd, user |-> user, reply |-> "pending"]

\* The replies a server can give to AUTH or SELECT: +OK, an error, any
\* other value.
InitReplies == {"ok", "error", "other"}

last_reply(wire, r) == [wire EXCEPT ![Len(wire)].reply = r]

ConnInit ==
    /\ ipc = "closed"
    /\ iwire = <<>>
    /\ icfg \in [tls : BOOLEAN, username : BOOLEAN, password : BOOLEAN, db : 0..MaxDb]
    /\ ierr = "none"

\* select_db: nothing is sent for db 0, else SELECT is sent.
select_db(wire) ==
    IF icfg.db = 0
        THEN ipc' = "ok" /\ iwire' = wire
        ELSE ipc' = "select" /\ iwire' = Append(wire, Sent("SELECT", FALSE))

Fail(kind) ==
    /\ ipc' = "err"
    /\ ierr' = kind

\* create_connection with tls set: refused before connecting.
CreateTlsRefused ==
    /\ ipc = "closed"
    /\ icfg.tls
    /\ Fail("Protocol")
    /\ UNCHANGED <<iwire, icfg>>
    /\ UNCHANGED <<poolVars, routerVars, clusterVars, pipeVars, sentVars, respVars, permVars, foVars, lockVars, taskVars, bufVars>>

\* connect_timeout_with_max_buf fails.
ConnectErr(kind) ==
    /\ ipc = "closed"
    /\ ~icfg.tls
    /\ Fail(kind)
    /\ UNCHANGED <<iwire, icfg>>
    /\ UNCHANGED <<poolVars, routerVars, clusterVars, pipeVars, sentVars, respVars, permVars, foVars, lockVars, taskVars, bufVars>>

\* The connection is open and init starts: AUTH is sent when a password is
\* given, with the username when one is given; else select_db runs.
ConnectOk ==
    /\ ipc = "closed"
    /\ ~icfg.tls
    /\ IF icfg.password
           THEN ipc' = "auth" /\ iwire' = <<Sent("AUTH", icfg.username)>>
           ELSE select_db(<<>>)
    /\ UNCHANGED <<icfg, ierr>>
    /\ UNCHANGED <<poolVars, routerVars, clusterVars, pipeVars, sentVars, respVars, permVars, foVars, lockVars, taskVars, bufVars>>

\* An init that goes on to select_db whatever AUTH was answered.
AuthReply_ignored(reply) ==
    /\ ipc = "auth"
    /\ select_db(last_reply(iwire, reply))
    /\ UNCHANGED <<icfg, ierr>>
    /\ UNCHANGED <<poolVars, routerVars, clusterVars, pipeVars, sentVars, respVars, permVars, foVars, lockVars, taskVars, bufVars>>

\* auth reads its reply: +OK goes on to select_db, an error is a Redis
\* error, anything else a Protocol error.
AuthReply(reply) ==
    /\ ipc = "auth"
    /\ CASE reply = "ok" -> select_db(last_reply(iwire, reply)) /\ UNCHANGED ierr
         [] reply = "error" -> Fail("Redis") /\ iwire' = last_reply(iwire, reply)
         [] OTHER -> Fail("Protocol") /\ iwire' = last_reply(iwire, reply)
    /\ UNCHANGED icfg
    /\ UNCHANGED <<poolVars, routerVars, clusterVars, pipeVars, sentVars, respVars, permVars, foVars, lockVars, taskVars, bufVars>>

\* select_db reads its reply.
SelectReply(reply) ==
    /\ ipc = "select"
    /\ iwire' = last_reply(iwire, reply)
    /\ CASE reply = "ok" -> ipc' = "ok" /\ UNCHANGED ierr
         [] reply = "error" -> Fail("Redis")
         [] OTHER -> Fail("Protocol")
    /\ UNCHANGED icfg
    /\ UNCHANGED <<poolVars, routerVars, clusterVars, pipeVars, sentVars, respVars, permVars, foVars, lockVars, taskVars, bufVars>>

\* execute_str fails in auth or select_db: send_raw or read_response.
InitIoErr(kind) ==
    /\ ipc \in {"auth", "select"}
    /\ iwire' = last_reply(iwire, "io")
    /\ Fail(kind)
    /\ UNCHANGED icfg
    /\ UNCHANGED <<poolVars, routerVars, clusterVars, pipeVars, sentVars, respVars, permVars, foVars, lockVars, taskVars, bufVars>>

\* create_connection returns Ok(conn) and get() returns the guard.
HandOut ==
    /\ ipc = "ok"
    /\ ipc' = "out"
    /\ UNCHANGED <<iwire, icfg, ierr>>
    /\ UNCHANGED <<poolVars, routerVars, clusterVars, pipeVars, sentVars, respVars, permVars, foVars, lockVars, taskVars, bufVars>>

\* The next create_connection of the pool.
CreateAgain ==
    /\ ipc \in {"err", "out"}
    /\ ipc' = "closed"
    /\ iwire' = <<>>
    /\ ierr' = "none"
    /\ UNCHANGED icfg
    /\ UNCHANGED <<poolVars, routerVars, clusterVars, pipeVars, sentVars, respVars, permVars, foVars, lockVars, taskVars, bufVars>>

ConnNext ==
    \/ CreateTlsRefused
    \/ \E kind \in {"Connection", "Timeout"} : ConnectErr(kind)
    \/ ConnectOk
    \/ \E reply \in InitReplies : AuthReply(reply)
    \/ \E reply \in InitReplies : SelectReply(reply)
    \/ \E kind \in ReadErrors : InitIoErr(kind)
    \/ HandOut
    \/ CreateAgain

ConnStart ==
    /\ PoolInit /\ ConnInit /\ cfg_tls = icfg.tls
    /\ NoCluster /\ NoPipe /\ NoSentinel /\ NoReading /\ NoPipelines /\ NoFailovers /\ NoLocking /\ NoTask /\ NoBuffer

ConnSpec == ConnStart /\ [][ConnNext]_vars

\* C20: init sends at most AUTH and then SELECT. AUTH is the first command
\* exactly when a password is given, and carries the username exactly when
\* one is given. SELECT is sent only for db # 0, after nothing or after an
\* AUTH answered +OK, and a connection whose init succeeded with db # 0 has
\* sent it. init succeeds only if every command it sent was answered +OK,
\* and only a connection whose init succeeded is handed out.
C20_InitHandshake ==
    /\ [](Len(iwire) <= 2)
    /\ [](ipc \in {"auth", "select", "ok", "out"} \/ iwire # <<>> =>
            IF icfg.password
                THEN iwire # <<>> /\ iwire[1].cmd = "AUTH" /\ iwire[1].user = icfg.username
                ELSE \A i \in 1..Len(iwire) : iwire[i].cmd # "AUTH")
    /\ [](\A i \in 1..Len(iwire) : iwire[i].cmd = "AUTH" => i = 1)
    /\ [](\A i \in 1..Len(iwire) : iwire[i].cmd = "SELECT" =>
            /\ icfg.db # 0
            /\ i = Len(iwire)
            /\ \A j \in 1..(i - 1) : iwire[j].cmd = "AUTH" /\ iwire[j].reply = "ok")
    /\ [](ipc \in {"ok", "out"} =>
            /\ \A i \in 1..Len(iwire) : iwire[i].reply = "ok"
            /\ icfg.db # 0 => iwire # <<>> /\ iwire[Len(iwire)].cmd = "SELECT"
            /\ ierr = "none"
            /\ ~icfg.tls)
    /\ [](icfg.tls => iwire = <<>>)
    /\ [][ipc' = "out" => ipc = "ok"]_vars

\* C20 witness: a connection is handed out after AUTH with a username and
\* SELECT of the highest db were both answered +OK.
C20_Witness ==
    /\ ipc = "out"
    /\ icfg.db = MaxDb
    /\ iwire = <<[cmd |-> "AUTH", user |-> TRUE, reply |-> "ok"],
                 [cmd |-> "SELECT", user |-> FALSE, reply |-> "ok"]>>

\* ------------------------------------------------------------ RESP parser
\* resp/parser.rs.  A byte is a one-character string; CR and LF are "\r" and
\* "\n", xFF is a byte that occurs in no UTF-8 text.  Offsets count from 0 as
\* in the source.  i64 is scaled to IntBits bits, which keeps the
\* overflow arithmetic of the source at a width the checker can enumerate.
IntBits == 8

I64_MIN == -(2 ^ (IntBits - 1))

I64_MAX == (2 ^ (IntBits - 1)) - 1

CR == "\r"

LF == "\n"

Digits == <<"0", "1", "2", "3", "4", "5", "6", "7", "8", "9">>

is_ascii_digit(b) == \E k \in 1..10 : Digits[k] = b

\* A RespValue: its variant, its bytes (strings, bulk data), its number and
\* its elements (Map and Attribute keep their pairs flattened, key before
\* value; Attribute ends with the data it annotates).
Value(t, s, i, kids) == [t |-> t, s |-> s, i |-> i, kids |-> kids]

NoValue == Value("none", <<>>, 0, <<>>)

\* Result<(RespValue, usize)>: Ok((val, n)), or Err of the given kind.
Ok(v, n) == [tag |-> "Ok", val |-> v, n |-> n]

Err(kind) == [tag |-> kind, val |-> NoValue, n |-> 0]

\* &buf[from..to]
Slice(b, from, to) == SubSeq(b, from + 1, to)

\* std::str::from_utf8(bytes).is_ok()
from_utf8(bytes) == \A k \in 1..Len(bytes) : bytes[k] # "xFF"

\* find_crlf taking a buffer that ends on \r for a \r without its \n.
find_crlf_eager(b, offset) ==
    LET crs == {k \in offset..(Len(b) - 1) : b[k + 1] = CR}
    IN  IF crs = {} THEN Err("Incomplete")
        ELSE LET abs == CHOOSE k \in crs : \A j \in crs : k <= j
             IN  IF abs + 1 < Len(b) /\ b[abs + 2] = LF THEN Ok(NoValue, abs)
                 ELSE Err("Protocol")

\* find_crlf: the index of the first \r at or after offset, which must be
\* followed by \n; Incomplete when there is none or the buffer ends on it.
find_crlf(b, offset) ==
    LET crs == {k \in offset..(Len(b) - 1) : b[k + 1] = CR}
    IN  IF crs = {} THEN Err("Incomplete")
        ELSE LET abs == CHOOSE k \in crs : \A j \in crs : k <= j
             IN  IF abs + 1 < Len(b) /\ b[abs + 2] = LF THEN Ok(NoValue, abs)
                 ELSE IF abs + 1 >= Len(b) THEN Err("Incomplete")
                 ELSE Err("Protocol")

\* read_line: (line, index after \r\n).
read_line(b, offset) ==
    LET cr == find_crlf(b, offset)
    IN  IF cr.tag # "Ok" THEN [tag |-> cr.tag, line |-> <<>>, next |-> 0]
        ELSE [tag |-> "Ok", line |-> Slice(b, offset, cr.n), next |-> cr.n + 2]

\* The loop of parse_int_from_bytes: n.checked_mul(10).checked_sub(digit) in
\* the negative domain; -1 stands for the Protocol error of either failure
\* (a byte that is no digit, or overflow), any other result is -n <= 0.
RECURSIVE accumulate(_, _)
accumulate(digits, n) ==
    IF digits = <<>> THEN -n
    ELSE IF ~is_ascii_digit(digits[1]) THEN -1
    ELSE LET d == (CHOOSE k \in 1..10 : Digits[k] = digits[1]) - 1
         IN  IF n * 10 - d < I64_MIN THEN -1
             ELSE accumulate(Tail(digits), n * 10 - d)

\* parse_int_from_bytes.  `Ok(if negative { n } else { -n })`: negating
\* i64::MIN overflows, which panics in a build with overflow checks and
\* wraps to i64::MIN in one without (overflow_checks tells which).
parse_int_from_bytes(bytes, overflow_checks) ==
    IF bytes = <<>> THEN [tag |-> "Protocol", i |-> 0]
    ELSE LET negative == bytes[1] = "-"
             digits == IF bytes[1] \in {"-", "+"} THEN Tail(bytes) ELSE bytes
             m == accumulate(digits, 0)
         IN  IF digits = <<>> \/ m = -1 THEN [tag |-> "Protocol", i |-> 0]
             ELSE IF negative THEN [tag |-> "Ok", i |-> -m]
             ELSE IF -m = I64_MIN
                  THEN IF overflow_checks THEN [tag |-> "Panic", i |-> 0]
                       ELSE [tag |-> "Ok", i |-> I64_MIN]
             ELSE [tag |-> "Ok", i |-> m]

\* The number a decimal line denotes: its digits, most significant first.
RECURSIVE magnitude(_)
magnitude(digits) ==
    IF digits = <<>> THEN 0
    ELSE magnitude(SubSeq(digits, 1, Len(digits) - 1)) * 10
         + (CHOOSE k \in 1..10 : Digits[k] = digits[Len(digits)]) - 1

\* The line of a double or a big number, over the bytes of the model: an
\* optional sign and at least one digit (strip_prefix(['+', '-']), then all
\* ASCII digits; the same strings are the ones str::parse::<f64> accepts,
\* since neither '.', 'e' nor the letters of inf and nan are model bytes).
is_number(line) ==
    LET digits == IF line # <<>> /\ line[1] \in {"+", "-"} THEN Tail(line) ELSE line
    IN  digits # <<>> /\ \A k \in 1..Len(digits) : is_ascii_digit(digits[k])

\* parse: one RESP value from the front of buf.  parse_n is the element
\* loop of the aggregate parsers (`let (val, consumed) = parse(&sub)?`).
RECURSIVE parse(_, _), parse_n(_, _, _, _, _)
parse_n(b, next, k, acc, oc) ==
    IF k <= 0 THEN Ok(Value("elements", <<>>, 0, acc), next)
    ELSE LET r == parse(Slice(b, next, Len(b)), oc)
         IN  IF r.tag # "Ok" THEN r
             ELSE parse_n(b, next + r.n, k - 1, Append(acc, r.val), oc)

parse(b, oc) ==
    IF b = <<>> THEN Err("Incomplete")
    ELSE
    LET hd == read_line(b, 1)
        int == parse_int_from_bytes(hd.line, oc)
        len == int.i
        next == hd.next
        \* the aggregates: elements after the header
        elements(k, t, s) ==
            LET r == parse_n(b, next, k, <<>>, oc)
            IN  IF r.tag # "Ok" THEN r ELSE Ok(Value(t, s, 0, r.val.kids), r.n)
        \* the length-prefixed types: data and its terminator
        terminated == b[next + len + 1] = CR /\ b[next + len + 2] = LF
        content == Slice(b, next, next + len)
    IN
    CASE b[1] \in {"+", "-", ",", "("} ->
           IF hd.tag # "Ok" THEN Err(hd.tag)
           ELSE IF ~from_utf8(hd.line) THEN Err("Protocol")
           ELSE IF b[1] = "+" THEN Ok(Value("SimpleString", hd.line, 0, <<>>), next)
           ELSE IF b[1] = "-" THEN Ok(Value("Error", hd.line, 0, <<>>), next)
           ELSE IF ~is_number(hd.line) THEN Err("Protocol")
           ELSE IF b[1] = "," THEN Ok(Value("Double", hd.line, 0, <<>>), next)
           ELSE Ok(Value("BigNumber", hd.line, 0, <<>>), next)
      [] b[1] = "_" ->
           IF Len(b) < 3 THEN Err("Incomplete")
           ELSE IF b[2] # CR \/ b[3] # LF THEN Err("Protocol")
           ELSE Ok(Value("Null", <<>>, 0, <<>>), 3)
      [] b[1] = "#" ->
           IF Len(b) < 4 THEN Err("Incomplete")
           ELSE IF b[2] \notin {"t", "f"} THEN Err("Protocol")
           ELSE IF b[3] # CR \/ b[4] # LF THEN Err("Protocol")
           ELSE Ok(Value("Boolean", <<>>, IF b[2] = "t" THEN 1 ELSE 0, <<>>), 4)
      [] b[1] \in {":", "$", "*", "!", "=", "%", "~", ">", "|"} ->
           IF hd.tag # "Ok" THEN Err(hd.tag)
           ELSE IF int.tag # "Ok" THEN Err(int.tag)
           ELSE IF b[1] = ":" THEN Ok(Value("Integer", <<>>, len, <<>>), next)
           ELSE IF len < 0 THEN
               IF b[1] \in {"$", "*"} THEN Ok(Value("Null", <<>>, 0, <<>>), next)
               ELSE Err("Protocol")
           ELSE IF b[1] \in {"$", "!", "="} THEN
               IF Len(b) < next + len + 2 THEN Err("Incomplete")
               ELSE IF ~terminated THEN Err("Protocol")
               ELSE IF b[1] = "$" THEN Ok(Value("BulkString", content, 0, <<>>), next + len + 2)
               ELSE IF b[1] = "!" THEN
                   IF from_utf8(content) THEN Ok(Value("BulkError", content, 0, <<>>), next + len + 2)
                   ELSE Err("Protocol")
               ELSE IF len < 4 \/ content[4] # ":" THEN Err("Protocol")
               ELSE IF ~from_utf8(content) THEN Err("Protocol")
               ELSE Ok(Value("VerbatimString", content, 0, <<>>), next + len + 2)
           ELSE IF b[1] = "*" THEN elements(len, "Array", <<>>)
           ELSE IF b[1] = "~" THEN elements(len, "Set", <<>>)
           ELSE IF b[1] = "%" THEN elements(2 * len, "Map", <<>>)
           ELSE IF b[1] = "|" THEN elements(2 * len + 1, "Attribute", <<>>)
           ELSE IF len = 0 THEN Err("Protocol")
           ELSE LET kind == parse(Slice(b, next, Len(b)), oc)
                    rest == parse_n(b, next + kind.n, len - 1, <<>>, oc)
                IN  IF kind.tag # "Ok" THEN kind
                    ELSE IF kind.val.t \notin {"SimpleString", "BulkString"}
                            \/ ~from_utf8(kind.val.s) THEN Err("Protocol")
                    ELSE IF rest.tag # "Ok" THEN rest
                    ELSE Ok(Value("Push", kind.val.s, 0, rest.val.kids), rest.n)
      [] OTHER -> Err("Protocol")

\* resp_frame_len: the length of the frame at the front of buf, building no
\* value.  frame_len_n is its `for _ in 0..count` loop.
RECURSIVE resp_frame_len(_, _), frame_len_n(_, _, _, _)
\* The element loop of resp_frame_len leaving after its first round.
frame_len_n_once(b, next, k, oc) ==
    IF k <= 0 THEN Ok(NoValue, next)
    ELSE LET r == resp_frame_len(Slice(b, next, Len(b)), oc)
         IN  IF r.tag # "Ok" THEN r ELSE Ok(NoValue, next + r.n)

frame_len_n(b, next, k, oc) ==
    IF k <= 0 THEN Ok(NoValue, next)
    ELSE LET r == resp_frame_len(Slice(b, next, Len(b)), oc)
         IN  IF r.tag # "Ok" THEN r ELSE frame_len_n(b, next + r.n, k - 1, oc)

resp_frame_len(b, oc) ==
    IF b = <<>> THEN Err("Incomplete")
    ELSE
    LET hd == read_line(b, 1)
        int == parse_int_from_bytes(hd.line, oc)
        len == int.i
        next == hd.next
    IN
    CASE b[1] \in {"+", "-", ":", ",", "("} ->
           IF hd.tag # "Ok" THEN Err(hd.tag) ELSE Ok(NoValue, next)
      [] b[1] = "_" -> IF Len(b) < 3 THEN Err("Incomplete") ELSE Ok(NoValue, 3)
      [] b[1] = "#" -> IF Len(b) < 4 THEN Err("Incomplete") ELSE Ok(NoValue, 4)
      [] b[1] \in {"$", "!", "=", "*", "~", ">", "%", "|"} ->
           IF hd.tag # "Ok" THEN Err(hd.tag)
           ELSE IF int.tag # "Ok" THEN Err(int.tag)
           ELSE IF len < 0 THEN
               IF b[1] \in {"%", "|"} THEN Err("Protocol") ELSE Ok(NoValue, next)
           ELSE IF b[1] \in {"$", "!", "="} THEN
               IF Len(b) < next + len + 2 THEN Err("Incomplete")
               ELSE Ok(NoValue, next + len + 2)
           ELSE IF b[1] \in {"*", "~", ">"} THEN frame_len_n(b, next, len, oc)
           ELSE IF b[1] = "%" THEN frame_len_n(b, next, 2 * len, oc)
           ELSE frame_len_n(b, next, 2 * len + 1, oc)
      [] OTHER -> Err("Protocol")

\* ------------------------------------------------------------ RESP writer
\* itoa's Buffer::format: the decimal digits of a usize.
RECURSIVE format(_)
format(n) ==
    IF n < 10 THEN <<Digits[n + 1]>>
    ELSE format(n \div 10) \o <<Digits[(n % 10) + 1]>>

\* The concatenation of a sequence of byte strings.
RECURSIVE Concat(_)
Concat(ss) == IF ss = <<>> THEN <<>> ELSE ss[1] \o Concat(Tail(ss))

\* The frames a server writes: a line frame, a length-prefixed frame and an
\* aggregate with its declared count and the bytes of its elements.
Line(t, body) == <<t>> \o body \o <<CR, LF>>

Bulk(t, data) == <<t>> \o format(Len(data)) \o <<CR, LF>> \o data \o <<CR, LF>>

Agg(t, count, elems) == <<t>> \o format(count) \o <<CR, LF>> \o Concat(elems)

\* Well-formed frames of the fifteen types: the scalars, and aggregates
\* over a few of them, nesting included.
Scalars ==
    { Line("+", <<"a">>), Line("+", <<>>), Line("-", <<"a", "1">>),
      Line(":", <<"1">>), Line(":", <<"-", "1", "2">>), Line(",", <<"-", "1">>),
      Line("(", <<"+", "1", "2">>), <<"_", CR, LF>>, <<"#", "t", CR, LF>>,
      <<"#", "f", CR, LF>>, Bulk("$", <<"a">>), Bulk("$", <<>>),
      Bulk("$", <<CR, LF>>), Bulk("$", <<"xFF", "$">>), <<"$", "-", "1", CR, LF>>,
      <<"*", "-", "1", CR, LF>>, Bulk("!", <<"a">>),
      Bulk("=", <<"t", "f", "t", ":", "a">>) }

Elems == { Line(":", <<"1">>), Bulk("$", <<"a">>), <<"_", CR, LF>> }

Aggregates ==
    {Agg("*", 0, <<>>), Agg("~", 0, <<>>), Agg("%", 0, <<>>)}
    \cup {Agg(t, 1, <<e>>) : t \in {"*", "~"}, e \in Elems}
    \cup {Agg("*", 2, <<e, f>>) : e \in Elems, f \in Elems}
    \cup {Agg("%", 1, <<e, f>>) : e \in Elems, f \in Elems}
    \cup {Agg(">", 1, <<k>>) : k \in {Line("+", <<"a">>), Bulk("$", <<"a">>)}}
    \cup {Agg(">", 2, <<Line("+", <<"a">>), e>>) : e \in Elems}
    \cup {Agg("|", 0, <<e>>) : e \in Elems}
    \cup {Agg("|", 1, <<Line("+", <<"a">>), e, f>>) : e \in Elems, f \in Elems}
    \cup {Agg("*", 2, <<Agg(t, 1, <<e>>), e>>) : t \in {"*", "~"}, e \in Elems}
    \cup {Agg("%", 1, <<Line("+", <<"a">>), Agg("*", 1, <<e>>)>>) : e \in Elems}

Frames == Scalars \cup Aggregates

\* ------------------------------------------------- the functions, applied
\* The byte strings parse and resp_frame_len are applied to: every frame
\* above, alone, followed by more bytes, and with any one of its bytes
\* replaced; and the integer frames of every decimal around the ends of the
\* i64 range, with and without a sign or leading zeros, and of lines
\* that are no decimal.
Tails == { <<"+">>, <<CR>>, Line(":", <<"1">>) }

Replacements == { CR, "1", "a", "xFF" }

IntMargin == 12

Decimals ==
    LET vs == (I64_MIN - IntMargin)..(I64_MAX + IntMargin)
    IN  {(IF v < 0 THEN <<"-">> ELSE <<>>) \o format(IF v < 0 THEN -v ELSE v) : v \in vs}
        \cup {<<"+">> \o format(v) : v \in 0..(I64_MAX + IntMargin)}
        \cup {<<s, "0">> \o format(v) : s \in {"-", "0"},
                                       v \in (I64_MAX - 2)..(I64_MAX + 2)}

NoDecimals ==
    { <<>>, <<"-">>, <<"+">>, <<"a">>, <<"1", "a">>, <<"-", "a">>, <<"1", "-">>,
      <<"+", "-", "1">>, <<"-", "-", "1">>, <<"1", "+">>, <<"xFF">>, <<"1", "$", "2">> }

ParseInputs ==
    Frames
    \cup {f \o t : f \in Frames, t \in Tails}
    \cup UNION {{[f EXCEPT ![k] = r] : k \in DOMAIN f, r \in Replacements} : f \in Frames}
    \cup {Line(":", d) : d \in Decimals \cup NoDecimals}

\* parse and resp_frame_len applied to the bytes and to their first cut
\* bytes (what a connection holds when the socket has delivered that much).
Parse(cut) ==
    /\ fin.fn = "parse"
    /\ fout.fn = "none"
    /\ fout' = [fn |-> "parse", cut |-> cut,
                whole |-> parse(fin.arg, fin.oc),
                part |-> parse(SubSeq(fin.arg, 1, cut), fin.oc),
                whole_len |-> resp_frame_len(fin.arg, fin.oc),
                part_len |-> resp_frame_len(SubSeq(fin.arg, 1, cut), fin.oc)]
    /\ UNCHANGED <<frames, stream, buf, got, rpc, rraw, fin>>
    /\ UNCHANGED <<poolVars, routerVars, clusterVars, pipeVars, sentVars, connVars, permVars, foVars, lockVars, taskVars, bufVars>>

\* ------------------------------------------------ fused parser (bounds)
\* response.rs.  The three limits, scaled with the integer width: the
\* source has 16,777,216 elements, 512 levels and 10,000 bytes.
MAX_RESP_ELEMENTS == 3

MAX_PARSE_DEPTH == 2

MAX_BIGNUMBER_LEN == 3

\* Two's complement wrap-around to IntBits bits.
wrapping(x) == ((x - I64_MIN) % (2 ^ IntBits)) + I64_MIN

\* The hot loop of fused_parse_int: n.wrapping_mul(10).wrapping_add(digit).
RECURSIVE wrapping_accumulate(_, _)
wrapping_accumulate(digits, n) ==
    IF digits = <<>> THEN n
    ELSE wrapping_accumulate(Tail(digits),
             wrapping(n * 10 + (CHOOSE k \in 1..10 : Digits[k] = digits[1]) - 1))

\* fused_parse_int: empty, no digits and any byte that is no digit are
\* Protocol errors; the digits are then accumulated with wrapping
\* arithmetic, and `-n` of i64::MIN panics or wraps as the build has it.
fused_parse_int(bytes, overflow_checks) ==
    IF bytes = <<>> THEN [tag |-> "Protocol", i |-> 0]
    ELSE LET negative == bytes[1] = "-"
             digits == IF bytes[1] \in {"-", "+"} THEN Tail(bytes) ELSE bytes
             n == wrapping_accumulate(digits, 0)
         IN  IF digits = <<>> \/ \E k \in 1..Len(digits) : ~is_ascii_digit(digits[k])
             THEN [tag |-> "Protocol", i |-> 0]
             ELSE IF ~negative THEN [tag |-> "Ok", i |-> n]
             ELSE IF n = I64_MIN
                  THEN IF overflow_checks THEN [tag |-> "Panic", i |-> 0]
                       ELSE [tag |-> "Ok", i |-> I64_MIN]
             ELSE [tag |-> "Ok", i |-> -n]

\* validated_count: Ok(count) or the Protocol error.
validated_count(count) ==
    IF count < 0 \/ count > MAX_RESP_ELEMENTS THEN "Protocol" ELSE "Ok"

\* parse_inner: the fused parser at offset pos (absolute, from 0) and the
\* given depth.  The result is the tag (Ok, or the error: Incomplete,
\* Protocol, Redis for an error frame, Python for an exception of int()),
\* the offset after the value, and the work done that depends on counts:
\* the slots of the lists allocated (PyList_New(count)) plus the element
\* parses started.  inner_n is the element loop.
Done(tag, n, work) == [tag |-> tag, n |-> n, work |-> work]

RECURSIVE parse_inner(_, _, _, _), inner_n(_, _, _, _, _, _)
inner_n(b, pos, k, depth, work, oc) ==
    IF k <= 0 THEN Done("Ok", pos, work)
    ELSE LET r == parse_inner(b, pos, depth, oc)
         IN  IF r.tag # "Ok" THEN Done(r.tag, 0, work + 1 + r.work)
             ELSE inner_n(b, r.n, k - 1, depth, work + 1 + r.work, oc)

parse_inner(b, pos, depth, oc) ==
    IF depth > MAX_PARSE_DEPTH THEN Done("Protocol", 0, 0)
    ELSE IF pos >= Len(b) THEN Done("Incomplete", 0, 0)
    ELSE
    LET ty == b[pos + 1]
        hd == read_line(b, pos + 1)   \* fused_read_line: the same three cases
        int == fused_parse_int(hd.line, oc)
        len == int.i
        next == hd.next
    IN
    CASE ty \in {"_", "#"} ->
           LET size == IF ty = "_" THEN 3 ELSE 4
           IN  IF Len(b) < pos + size THEN Done("Incomplete", 0, 0)
               ELSE Done("Ok", pos + size, 0)
      [] ty \in {"+", "-", ",", "("} ->
           IF hd.tag # "Ok" THEN Done(hd.tag, 0, 0)
           ELSE IF ty = "-" THEN Done("Redis", 0, 0)
           ELSE IF ty = "(" /\ Len(hd.line) > MAX_BIGNUMBER_LEN THEN Done("Protocol", 0, 0)
           ELSE IF ~from_utf8(hd.line) THEN Done("Protocol", 0, 0)
           ELSE IF ty = "+" THEN Done("Ok", next, 0)
           ELSE IF is_number(hd.line) THEN Done("Ok", next, 0)
           ELSE Done(IF ty = "," THEN "Protocol" ELSE "Python", 0, 0)
      [] ty \in {":", "$", "*", "!", "=", "%", "~", ">", "|"} ->
           IF hd.tag # "Ok" THEN Done(hd.tag, 0, 0)
           ELSE IF int.tag # "Ok" THEN Done(int.tag, 0, 0)
           ELSE IF ty = ":" THEN Done("Ok", next, 0)
           ELSE IF len < 0 /\ ty \in {"$", "*"} THEN Done("Ok", next, 0)
           ELSE IF ty \in {"$", "!", "="} THEN
               IF len < 0 THEN Done("Protocol", 0, 0)
               ELSE IF Len(b) < next + len + 2 THEN Done("Incomplete", 0, 0)
               ELSE IF ty = "!" THEN Done("Redis", 0, 0)
               ELSE IF ty = "=" /\ ~from_utf8(Slice(b, next, next + len))
                    THEN Done("Protocol", 0, 0)
               ELSE Done("Ok", next + len + 2, 0)
           ELSE IF validated_count(len) # "Ok" THEN Done("Protocol", 0, 0)
           ELSE IF ty \in {"*", ">"} THEN inner_n(b, next, len, depth + 1, len, oc)
           ELSE IF ty = "~" THEN inner_n(b, next, len, depth + 1, 0, oc)
           ELSE IF ty = "%" THEN inner_n(b, next, 2 * len, depth + 1, 0, oc)
           ELSE inner_n(b, next, 2 * len + 1, depth + 1, 0, oc)
      [] OTHER -> Done("Protocol", 0, 0)

\* parse_to_python.
parse_to_python(b, oc) ==
    IF b = <<>> THEN Done("Incomplete", 0, 0) ELSE parse_inner(b, 0, 0, oc)

\* The frames parse_to_python is applied to: an aggregate (or bulk) header
\* declaring each count around zero, the element limit and the ends of the
\* integer range, followed by more elements than any accepted count needs;
\* arrays nested to each depth around the limit; big numbers of each
\* length around the limit.
RECURSIVE Repeat(_, _)
Repeat(s, k) == IF k <= 0 THEN <<>> ELSE s \o Repeat(s, k - 1)

DeclaredCounts ==
    (-2)..(MAX_RESP_ELEMENTS + 2)
    \cup (I64_MAX - 1)..(I64_MAX + 1)
    \cup ((2 ^ IntBits) - 1)..((2 ^ IntBits) + 1)

FusedInputs ==
    {[fn |-> "parse_to_python", oc |-> oc, type |-> t, declares |-> c, nest |-> 1,
      arg |-> <<t>> \o (IF c < 0 THEN <<"-">> \o format(-c) ELSE format(c)) \o <<CR, LF>>
              \o Repeat(Line(":", <<"1">>), 2 * MAX_RESP_ELEMENTS + 3)] :
        oc \in BOOLEAN, t \in {"*", "~", ">", "%", "|", "$"}, c \in DeclaredCounts}
    \cup {[fn |-> "parse_to_python", oc |-> oc, type |-> "*", declares |-> 1, nest |-> d,
           arg |-> Repeat(<<t, "1", CR, LF>>, d) \o Line(":", <<"1">>)] :
        oc \in BOOLEAN, t \in {"*", "~", ">"}, d \in 0..(MAX_PARSE_DEPTH + 2)}
    \cup {[fn |-> "parse_to_python", oc |-> oc, type |-> "(", declares |-> k, nest |-> 0,
           arg |-> Line("(", Repeat(<<"7">>, k))] :
        oc \in BOOLEAN, k \in 1..(MAX_BIGNUMBER_LEN + 2)}

ParseToPython ==
    /\ fin.fn = "parse_to_python"
    /\ fout.fn = "none"
    /\ fout' = [fn |-> "parse_to_python", r |-> parse_to_python(fin.arg, fin.oc)]
    /\ UNCHANGED <<frames, stream, buf, got, rpc, rraw, fin>>
    /\ UNCHANGED <<poolVars, routerVars, clusterVars, pipeVars, sentVars, connVars, permVars, foVars, lockVars, taskVars, bufVars>>

\* ------------------------------------------------------- command encoder
\* resp/writer.rs.  encode_command: *<N>\r\n, then $<len>\r\n<data>\r\n
\* for each argument.
encode_command(args) ==
    <<"*">> \o format(Len(args)) \o <<CR, LF>>
    \o Concat([i \in 1..Len(args) |->
                  <<"$">> \o format(Len(args[i])) \o <<CR, LF>> \o args[i] \o <<CR, LF>>])

\* encode_pipeline with a separator byte written between two commands.
RECURSIVE encode_pipeline_sep(_)
encode_pipeline_sep(commands) ==
    IF commands = <<>> THEN <<>>
    ELSE encode_command(commands[1])
         \o (IF Len(commands) > 1 THEN <<LF>> ELSE <<>>)
         \o encode_pipeline_sep(Tail(commands))

\* encode_pipeline: its own loop over the commands, writing for each what
\* encode_command writes, into one buffer.
RECURSIVE encode_pipeline(_)
encode_pipeline(commands) ==
    IF commands = <<>> THEN <<>>
    ELSE <<"*">> \o format(Len(commands[1])) \o <<CR, LF>>
         \o Concat([i \in 1..Len(commands[1]) |->
                       <<"$">> \o format(Len(commands[1][i])) \o <<CR, LF>>
                       \o commands[1][i] \o <<CR, LF>>])
         \o encode_pipeline(Tail(commands))

\* The argument lists the encoders are applied to: up to MaxArgs arguments,
\* empty ones and ones holding CR, LF and type bytes included; and the
\* pipelines of up to MaxCmds commands over a few of them.
MaxArgs == 2

Arguments ==
    { <<>>, <<"a">>, <<CR>>, <<LF>>, <<CR, LF>>, <<"a", CR, LF>>, <<"$", "1">>,
      <<CR, LF, "*">> }

EncodeInputs ==
    {[fn |-> "encode", cmds |-> <<args>>] :
        args \in UNION {[1..k -> Arguments] : k \in 0..MaxArgs}}
    \cup {[fn |-> "encode", cmds |-> cmds] :
        cmds \in UNION {[1..n -> { <<>>, << <<>> >>, << <<"a">> >>, << <<>>, <<CR, LF>> >>,
                                   << <<"a">>, <<CR, LF>> >>, << <<"$", "1">>, <<"a">> >> }] :
                        n \in 0..MaxCmds}}

Encode ==
    /\ fin.fn = "encode"
    /\ fout.fn = "none"
    /\ fout' = [fn |-> "encode",
                each |-> [i \in 1..Len(fin.cmds) |-> encode_command(fin.cmds[i])],
                all |-> encode_pipeline(fin.cmds)]
    /\ UNCHANGED <<frames, stream, buf, got, rpc, rraw, fin>>
    /\ UNCHANGED <<poolVars, routerVars, clusterVars, pipeVars, sentVars, connVars, permVars, foVars, lockVars, taskVars, bufVars>>

\* ------------------------------------------------------ error kinds
\* error.rs, RedisErrorKind::from_error_msg.  A message is a sequence of
\* pieces: a known name stands for its letters, "G" for a letter, digits
\* and signs for themselves, " " and "\t" for whitespace.  No name is a
\* prefix of another and no run of the other pieces spells a name, so
\* msg.starts_with(name) holds exactly when the first piece is that name.
KnownKinds ==
    [WRONGTYPE |-> "WrongType", CLUSTERDOWN |-> "ClusterDown", LOADING |-> "Loading",
     READONLY |-> "ReadOnly", NOSCRIPT |-> "NoScript", BUSY |-> "Busy",
     TRYAGAIN |-> "TryAgain", ERR |-> "Err"]

Whitespace == {" ", "\t"}

U16_MAX == 65535

\* A RedisErrorKind: Moved and Ask carry slot and addr, Other its string.
Kind(k, slot, addr, other) == [kind |-> k, slot |-> slot, addr |-> addr, other |-> other]

\* str::parse::<u16>: an optional '+', at least one digit, at most 65535.
parses_u16(str) ==
    LET digits == IF str # <<>> /\ str[1] = "+" THEN Tail(str) ELSE str
    IN  /\ digits # <<>>
        /\ \A k \in 1..Len(digits) : is_ascii_digit(digits[k])
        /\ magnitude(digits) <= U16_MAX

\* msg.split_whitespace().next(): the first maximal run of pieces that are
\* not whitespace (<<>> for None).
first_token(msg) ==
    LET starts == {k \in 1..Len(msg) : msg[k] \notin Whitespace}
    IN  IF starts = {} THEN <<>>
        ELSE LET from == CHOOSE k \in starts : \A j \in starts : k <= j
                 ends == {k \in from..Len(msg) : k = Len(msg) \/ msg[k + 1] \in Whitespace}
                 to == CHOOSE k \in ends : \A j \in ends : k <= j
             IN  SubSeq(msg, from, to)

\* from_error_msg: the kind it returns.
from_error_msg(msg) ==
    LET redirect == Len(msg) >= 2 /\ msg[1] \in {"MOVED", "ASK"} /\ msg[2] = " "
        rest == SubSeq(msg, 3, Len(msg))
        spaces == {k \in 1..Len(rest) : rest[k] = " "}
        sp == CHOOSE k \in spaces : \A j \in spaces : k <= j
        slot_str == SubSeq(rest, 1, sp - 1)
        addr == SubSeq(rest, sp + 1, Len(rest))
    IN  IF redirect
        THEN IF spaces # {} /\ parses_u16(slot_str)
             THEN Kind(IF msg[1] = "MOVED" THEN "Moved" ELSE "Ask",
                       magnitude(IF slot_str[1] = "+" THEN Tail(slot_str) ELSE slot_str),
                       addr, <<>>)
             ELSE Kind("Other", 0, <<>>, <<msg[1]>>)
        ELSE IF msg # <<>> /\ msg[1] \in DOMAIN KnownKinds
        THEN Kind(KnownKinds[msg[1]], 0, <<>>, <<>>)
        ELSE Kind("Other", 0, <<>>,
                  IF first_token(msg) = <<>> THEN <<"UNKNOWN">> ELSE first_token(msg))

\* The messages from_error_msg is applied to: every message of up to
\* MaxPieces pieces, and redirects with each kind of slot and address.
MaxPieces == 3

Pieces == DOMAIN KnownKinds \cup {"MOVED", "ASK", "G", "1", " ", "\t"}

SlotStrings ==
    { <<"1">>, <<"0", "7">>, <<"+", "1">>, <<"-", "1">>, <<"G">>, <<>>, <<"1", "G">>,
      <<"6", "5", "5", "3", "5">>, <<"6", "5", "5", "3", "6">> }

ErrorInputs ==
    {[fn |-> "from_error_msg", msg |-> m] :
        m \in UNION {[1..k -> Pieces] : k \in 0..MaxPieces}}
    \cup {[fn |-> "from_error_msg", msg |-> <<r, " ">> \o sl \o sep \o ad] :
        r \in {"MOVED", "ASK"}, sl \in SlotStrings, sep \in {<<" ">>, <<"\t">>, <<>>},
        ad \in {<<>>, <<"G">>, <<"G", " ", "G">>}}

FromErrorMsg ==
    /\ fin.fn = "from_error_msg"
    /\ fout.fn = "none"
    /\ fout' = [fn |-> "from_error_msg", kind |-> from_error_msg(fin.msg)]
    /\ UNCHANGED <<frames, stream, buf, got, rpc, rraw, fin>>
    /\ UNCHANGED <<poolVars, routerVars, clusterVars, pipeVars, sentVars, connVars, permVars, foVars, lockVars, taskVars, bufVars>>

\* ------------------------------------------------------------- hash slots
\* crc16.rs: CRC16-XMODEM over u16, the hash tag of a key, and the slot.
SLOT_COUNT == 16384

U16 == 65536

\* The value of the bytes that occur in the keys that are hashed.
byte_value(c) ==
    CASE c = "a" -> 97 [] c = "b" -> 98 [] c = "{" -> 123 [] c = "}" -> 125

RECURSIVE xor(_, _)
xor(a, b) ==
    IF a = 0 THEN b
    ELSE IF b = 0 THEN a
    ELSE (((a % 2) + (b % 2)) % 2) + 2 * xor(a \div 2, b \div 2)

\* One entry of CRC16_TABLE: eight shift steps of i << 8 with 0x1021.
RECURSIVE table_steps(_, _)
table_steps(crc, j) ==
    IF j = 8 THEN crc
    ELSE table_steps(IF crc >= 32768 THEN xor((crc * 2) % U16, 4129)
                                     ELSE (crc * 2) % U16,
                     j + 1)

CRC16_TABLE(i) == table_steps((i * 256) % U16, 0)

RECURSIVE crc16_from(_, _)
crc16_from(crc, data) ==
    IF data = <<>> THEN crc
    ELSE LET idx == xor(crc \div 256, byte_value(Head(data)))
         IN  crc16_from(xor((crc * 256) % U16, CRC16_TABLE(idx)), Tail(data))

crc16(data) == crc16_from(0, data)

\* position(|b| b == c): the first index (from 0) of c in s, or -1.
position(s, c) ==
    IF \E i \in 1..Len(s) : s[i] = c
    THEN (CHOOSE i \in 1..Len(s) : s[i] = c /\ \A j \in 1..(i - 1) : s[j] # c) - 1
    ELSE -1

\* extract_hash_tag without the close_offset > 0 test.
extract_hash_tag_any(key) ==
    LET open == position(key, "{")
        close_offset == IF open < 0 THEN -1
                        ELSE position(Slice(key, open + 1, Len(key)), "}")
    IN  IF open >= 0 /\ close_offset >= 0
        THEN Slice(key, open + 1, open + 1 + close_offset)
        ELSE key

extract_hash_tag(key) ==
    LET open == position(key, "{")
        close_offset == IF open < 0 THEN -1
                        ELSE position(Slice(key, open + 1, Len(key)), "}")
    IN  IF open >= 0 /\ close_offset > 0
        THEN Slice(key, open + 1, open + 1 + close_offset)
        ELSE key

hash_slot(key) == crc16(extract_hash_tag(key)) % SLOT_COUNT

\* The keys hash_slot is applied to: every key of up to MaxKeyLen bytes.
MaxKeyLen == 4

Keys == UNION {[1..n -> {"a", "b", "{", "}"}] : n \in 0..MaxKeyLen}

HashInputs == {[fn |-> "hash_slot", key |-> k] : k \in Keys}

HashSlot ==
    /\ fin.fn = "hash_slot"
    /\ fout.fn = "none"
    /\ fout' = [fn |-> "hash_slot", slot |-> hash_slot(fin.key)]
    /\ UNCHANGED <<frames, stream, buf, got, rpc, rraw, fin>>
    /\ UNCHANGED <<poolVars, routerVars, clusterVars, pipeVars, sentVars, connVars, permVars, foVars, lockVars, taskVars, bufVars>>

\* ------------------------------------------------- CLUSTER SLOTS replies
\* router/cluster.rs, SlotMap::from_cluster_slots.  An entry of the reply
\* is an array [start, end, master-node, replica-node ...] or something
\* else; a node item parse_node_addr rejects is written NoAddr.
SlotsEntry(start, end, master, replicas) ==
    [arr |-> TRUE, len |-> 3 + Len(replicas), start_int |-> TRUE, start |-> start,
     end_int |-> TRUE, end |-> end, master |-> master, replicas |-> replicas]

\* `as u16` of an i64.
as_u16(i) == i % U16

\* Vec::sort_by_key(|r| r.start): stable.
RECURSIVE sort_by_key(_)
sort_by_key(ranges) ==
    IF ranges = <<>> THEN <<>>
    ELSE LET r == Head(ranges)
             sorted == sort_by_key(Tail(ranges))
             before == SelectSeq(sorted, LAMBDA x : x.start < r.start)
             after == SelectSeq(sorted, LAMBDA x : x.start >= r.start)
         IN  before \o <<r>> \o after

SlotsErr == [ok |-> FALSE, ranges |-> <<>>]

\* The loop over the entries: the ranges pushed, in the order of the reply.
RECURSIVE slot_ranges(_)
slot_ranges(entries) ==
    IF entries = <<>> THEN [ok |-> TRUE, ranges |-> <<>>]
    ELSE LET e == Head(entries)
             rest == slot_ranges(Tail(entries))
         IN  IF ~e.arr \/ e.len < 3 THEN rest
             ELSE IF ~e.start_int \/ ~e.end_int \/ e.master = NoAddr THEN SlotsErr
             ELSE IF ~rest.ok THEN SlotsErr
             ELSE [ok |-> TRUE,
                   ranges |-> <<SlotRange(as_u16(e.start), as_u16(e.end), e.master,
                                          SelectSeq(e.replicas, LAMBDA a : a # NoAddr))>>
                              \o rest.ranges]

from_cluster_slots(reply) ==
    IF ~reply.arr THEN SlotsErr
    ELSE LET pushed == slot_ranges(reply.entries)
         IN  IF ~pushed.ok THEN SlotsErr
             ELSE [ok |-> TRUE, ranges |-> sort_by_key(pushed.ranges)]

\* Entries of one CLUSTER SLOTS reply.
MaxEntries == 2

\* The entries the replies are made of: the whole slot space, its two
\* halves, ranges that overlap, leave a gap, run backwards, end beyond the
\* last slot or do not fit 16 bits, and entries the loop skips or rejects.
SlotsEntries ==
    { SlotsEntry(0, SLOT_COUNT - 1, 1, <<>>),
      SlotsEntry(0, 1, 1, <<2, NoAddr>>),
      SlotsEntry(2, SLOT_COUNT - 1, 2, <<>>),
      SlotsEntry(1, SLOT_COUNT - 1, 2, <<>>),
      SlotsEntry(3, SLOT_COUNT - 1, 2, <<>>),
      SlotsEntry(1, 0, 1, <<>>),
      SlotsEntry(0, SLOT_COUNT, 1, <<>>),
      SlotsEntry(U16, U16 + SLOT_COUNT - 1, 1, <<>>),
      SlotsEntry(-1, SLOT_COUNT - 1, 1, <<>>),
      SlotsEntry(0, SLOT_COUNT - 1, NoAddr, <<>>),
      [SlotsEntry(0, SLOT_COUNT - 1, 1, <<>>) EXCEPT !.start_int = FALSE],
      [SlotsEntry(0, SLOT_COUNT - 1, 1, <<>>) EXCEPT !.len = 2],
      [SlotsEntry(0, SLOT_COUNT - 1, 1, <<>>) EXCEPT !.arr = FALSE] }

\* The replies: every array of up to MaxEntries entries, and a reply that
\* is no array.
SlotsInputs ==
    {[fn |-> "from_cluster_slots", arr |-> TRUE, entries |-> es] :
        es \in UNION {[1..n -> SlotsEntries] : n \in 0..MaxEntries}}
    \cup {[fn |-> "from_cluster_slots", arr |-> FALSE, entries |-> <<>>]}

FromClusterSlots ==
    /\ fin.fn = "from_cluster_slots"
    /\ fout.fn = "none"
    /\ fout' = [fn |-> "from_cluster_slots", r |-> from_cluster_slots(fin)]
    /\ UNCHANGED <<frames, stream, buf, got, rpc, rraw, fin>>
    /\ UNCHANGED <<poolVars, routerVars, clusterVars, pipeVars, sentVars, connVars, permVars, foVars, lockVars, taskVars, bufVars>>

\* --------------------------------------------- the two integer parsers
\* The decimal of an integer frame or of a length or count header, read by
\* the tree parser and by the fused one, and the integer frame :<decimal>
\* parsed by parse and by parse_to_python.
IntInputs ==
    {[fn |-> "parse_int", arg |-> d, oc |-> oc] : d \in Decimals \cup NoDecimals, oc \in BOOLEAN}

ParseInt ==
    /\ fin.fn = "parse_int"
    /\ fout.fn = "none"
    /\ fout' = [fn |-> "parse_int",
                tree |-> parse_int_from_bytes(fin.arg, fin.oc),
                fused |-> fused_parse_int(fin.arg, fin.oc),
                tree_frame |-> parse(Line(":", fin.arg), fin.oc).tag,
                fused_frame |-> parse_to_python(Line(":", fin.arg), fin.oc).tag]
    /\ UNCHANGED <<frames, stream, buf, got, rpc, rraw, fin>>
    /\ UNCHANGED <<poolVars, routerVars, clusterVars, pipeVars, sentVars, connVars, permVars, foVars, lockVars, taskVars, bufVars>>

\* ------------------------------------------------- MOVED point updates
\* update_slot_master applied to every slot map from_cluster_slots makes
\* of the replies above (well formed or not; a rejected reply counts as the
\* empty map, which the empty reply gives too), at each probed slot.
UpdateProbes == {0, 1, 2, 3, SLOT_COUNT - 1}

SlotMaps == {from_cluster_slots(r).ranges : r \in SlotsInputs}

UpdateInputs ==
    {[fn |-> "update_slot_master", map |-> m, slot |-> s, addr |-> a] :
        m \in SlotMaps, s \in UpdateProbes, a \in Addrs}

UpdateSlotMaster ==
    /\ fin.fn = "update_slot_master"
    /\ fout.fn = "none"
    /\ fout' = [fn |-> "update_slot_master",
                map |-> update_slot_master(fin.map, fin.slot, fin.addr)]
    /\ UNCHANGED <<frames, stream, buf, got, rpc, rraw, fin>>
    /\ UNCHANGED <<poolVars, routerVars, clusterVars, pipeVars, sentVars, connVars, permVars, foVars, lockVars, taskVars, bufVars>>

\* ---------------------------------------------------- functions applied

FnInputs ==
    {[fn |-> "parse", arg |-> s, oc |-> oc] : s \in ParseInputs, oc \in BOOLEAN}
    \cup FusedInputs
    \cup EncodeInputs
    \cup ErrorInputs
    \cup HashInputs
    \cup SlotsInputs
    \cup IntInputs
    \cup UpdateInputs

FnStart ==
    /\ PoolInit /\ cfg_tls = FALSE
    /\ NoCluster /\ NoPipe /\ NoSentinel /\ NoConnecting
    /\ NoPipelines /\ NoFailovers /\ NoLocking /\ NoTask /\ NoBuffer
    /\ frames = <<>> /\ stream = <<>> /\ buf = <<>> /\ got = <<>>
    /\ rpc = "closed" /\ rraw = FALSE
    /\ fin \in FnInputs
    /\ fout = [fn |-> "none"]

FnNext ==
    \/ fin.fn = "parse" /\ \E cut \in 0..Len(fin.arg) : Parse(cut)
    \/ ParseToPython
    \/ Encode
    \/ FromErrorMsg
    \/ HashSlot
    \/ FromClusterSlots
    \/ ParseInt
    \/ UpdateSlotMaster

FnSpec == FnStart /\ [][FnNext]_vars

\* --------------------------------------------------- parser restartability
\* C22: for bytes S cut anywhere into P1 ++ P2, parse(P1) is Incomplete or
\* is the very result of parse(S) (the same frame and consumed length),
\* parsing the two parts put together again gives the result of parsing S,
\* and when S starts with a frame that parses, every cut inside that frame
\* gives Incomplete, never an error or a shorter value.
C22_Restartable ==
    fout.fn = "parse" =>
        LET p1 == SubSeq(fin.arg, 1, fout.cut)
            p2 == SubSeq(fin.arg, fout.cut + 1, Len(fin.arg))
        IN  /\ fout.part.tag = "Incomplete" \/ fout.part = fout.whole
            /\ parse(p1 \o p2, fin.oc) = fout.whole
            /\ (fout.whole.tag = "Ok" /\ fout.cut < fout.whole.n)
                   => fout.part.tag = "Incomplete"

\* C22 witness: an array of two elements, cut one byte before its end, and
\* the same bytes cut after the frame with more bytes behind it.
C22_Witness ==
    /\ fout.fn = "parse"
    /\ fout.whole.tag = "Ok"
    /\ fout.whole.val.t = "Array"
    /\ Len(fout.whole.val.kids) = 2
    /\ fout.cut = fout.whole.n - 1
    /\ fout.part.tag = "Incomplete"

\* ------------------------------------------------- frame-length agreement
\* C23: wherever parse succeeds, resp_frame_len returns the consumed length
\* parse returns, and on every proper prefix of the frame parsed both
\* return Incomplete.
C23_FrameLenAgrees ==
    (fout.fn = "parse" /\ fout.whole.tag = "Ok") =>
        /\ fout.whole_len.tag = "Ok"
        /\ fout.whole_len.n = fout.whole.n
        /\ fout.cut < fout.whole.n =>
               (fout.part.tag = "Incomplete" /\ fout.part_len.tag = "Incomplete")

\* C23 witness: an attribute frame (pairs, then the data) measured whole
\* and cut inside its last element.
C23_Witness ==
    /\ fout.fn = "parse"
    /\ fout.whole.tag = "Ok"
    /\ fout.whole.val.t = "Attribute"
    /\ Len(fout.whole.val.kids) = 3
    /\ fout.whole_len.n = Len(fin.arg)
    /\ fout.cut = Len(fin.arg) - 1
    /\ fout.part_len.tag = "Incomplete"

\* ------------------------------------------------------- integer frames
\* C24: parse of the integer frame of a line (a line holds no \r) succeeds
\* with the exact value when the line is a decimal, with or without a sign,
\* whose value lies in [i64::MIN, i64::MAX], and fails with a Protocol
\* error for every other line: a decimal outside the range, no digits, a
\* lone sign, a byte that is no digit.
C24_IntegerRange ==
    LET line == SubSeq(fin.arg, 2, Len(fin.arg) - 2)
        v == IF line[1] = "-" THEN -magnitude(Tail(line))
             ELSE IF line[1] = "+" THEN magnitude(Tail(line))
             ELSE magnitude(line)
    IN  (/\ fout.fn = "parse"
         /\ Len(fin.arg) >= 3
         /\ fin.arg = Line(":", line)
         /\ \A k \in 1..Len(line) : line[k] # CR)
        => IF is_number(line) /\ v >= I64_MIN /\ v <= I64_MAX
           THEN fout.whole = Ok(Value("Integer", <<>>, v, <<>>), Len(fin.arg))
           ELSE fout.whole.tag = "Protocol"

\* ------------------------------------------------------ reading replies
\* RedisConnection::read_response and read_raw_response (tcp.rs) on one
\* connection whose server writes k frames, which the socket delivers in
\* chunks of any size.  The frames are far shorter than max_buf_size, so
\* the capacity test before each socket read never fails here.
MaxFrames == 2

StreamFrames ==
    { Line("+", <<"a">>), Line("-", <<"a">>), Bulk("$", <<CR, LF>>), <<"_", CR, LF>>,
      Agg("*", 2, <<Line(":", <<"1">>), Bulk("$", <<"a">>)>>),
      Agg("%", 1, <<Line("+", <<"a">>), Agg("*", 1, <<Line(":", <<"2">>)>>)>>) }

ReadStart ==
    /\ PoolInit /\ cfg_tls = FALSE
    /\ NoCluster /\ NoPipe /\ NoSentinel /\ NoConnecting
    /\ NoPipelines /\ NoFailovers /\ NoLocking /\ NoTask /\ NoBuffer
    /\ frames \in UNION {[1..k -> StreamFrames] : k \in 1..MaxFrames}
    /\ stream = Concat(frames)
    /\ buf = <<>>
    /\ got = <<>>
    /\ rpc = "idle"
    /\ rraw \in BOOLEAN
    /\ fin = [fn |-> "none"]
    /\ fout = [fn |-> "none"]

\* The caller calls read_response (read_raw_response when rraw): once per
\* frame the server has written.
ReadCall ==
    /\ rpc = "idle"
    /\ Len(got) < Len(frames)
    /\ rpc' = "parse"
    /\ UNCHANGED <<frames, stream, buf, got, rraw, fin, fout>>
    /\ UNCHANGED <<poolVars, routerVars, clusterVars, pipeVars, sentVars, connVars, permVars, foVars, lockVars, taskVars, bufVars>>

\* read_response not putting back the bytes after the consumed ones.
ReadParse_drop_tail ==
    /\ rpc = "parse"
    /\ ~rraw
    /\ \E oc \in BOOLEAN :
        LET r == parse(buf, oc)
        IN  IF buf = <<>> THEN rpc' = "read" /\ UNCHANGED <<buf, got>>
            ELSE IF r.tag = "Ok"
            THEN buf' = <<>> /\ got' = Append(got, r.val) /\ rpc' = "idle"
            ELSE IF r.tag = "Incomplete" THEN rpc' = "read" /\ UNCHANGED <<buf, got>>
            ELSE rpc' = "failed" /\ UNCHANGED <<buf, got>>
    /\ UNCHANGED <<frames, stream, rraw, fin, fout>>
    /\ UNCHANGED <<poolVars, routerVars, clusterVars, pipeVars, sentVars, connVars, permVars, foVars, lockVars, taskVars, bufVars>>

\* read_response, the top of its loop: a buffer that is not empty is split
\* off and parsed; Ok returns the value and puts the bytes after the
\* consumed ones back, Incomplete puts all of them back and goes on to read,
\* any other error puts them back and is returned.
ReadParse ==
    /\ rpc = "parse"
    /\ ~rraw
    /\ \E oc \in BOOLEAN :
        LET snapshot == buf
            r == parse(snapshot, oc)
        IN  IF buf = <<>> THEN rpc' = "read" /\ UNCHANGED <<buf, got>>
            ELSE IF r.tag = "Ok"
            THEN /\ buf' = (IF r.n < Len(snapshot)
                            THEN Slice(snapshot, r.n, Len(snapshot)) ELSE <<>>)
                 /\ got' = Append(got, r.val)
                 /\ rpc' = "idle"
            ELSE IF r.tag = "Incomplete" THEN rpc' = "read" /\ UNCHANGED <<buf, got>>
            ELSE rpc' = "failed" /\ UNCHANGED <<buf, got>>
    /\ UNCHANGED <<frames, stream, rraw, fin, fout>>
    /\ UNCHANGED <<poolVars, routerVars, clusterVars, pipeVars, sentVars, connVars, permVars, foVars, lockVars, taskVars, bufVars>>

\* read_raw_response, the top of its loop: resp_frame_len on a buffer that
\* is not empty; Ok(len) splits the first len bytes off and returns them.
ReadRawFrame ==
    /\ rpc = "parse"
    /\ rraw
    /\ \E oc \in BOOLEAN :
        LET r == resp_frame_len(buf, oc)
        IN  IF buf = <<>> THEN rpc' = "read" /\ UNCHANGED <<buf, got>>
            ELSE IF r.tag = "Ok"
            THEN /\ buf' = Slice(buf, r.n, Len(buf))
                 /\ got' = Append(got, Slice(buf, 0, r.n))
                 /\ rpc' = "idle"
            ELSE IF r.tag = "Incomplete" THEN rpc' = "read" /\ UNCHANGED <<buf, got>>
            ELSE rpc' = "failed" /\ UNCHANGED <<buf, got>>
    /\ UNCHANGED <<frames, stream, rraw, fin, fout>>
    /\ UNCHANGED <<poolVars, routerVars, clusterVars, pipeVars, sentVars, connVars, permVars, foVars, lockVars, taskVars, bufVars>>

\* self.stream.read_buf(&mut self.buf) returns n > 0: the socket delivers
\* the next n bytes, which are appended to the buffer; the loop starts over.
ReadBuf(n) ==
    /\ rpc = "read"
    /\ n \in 1..Len(stream)
    /\ buf' = buf \o SubSeq(stream, 1, n)
    /\ stream' = SubSeq(stream, n + 1, Len(stream))
    /\ rpc' = "parse"
    /\ UNCHANGED <<frames, got, rraw, fin, fout>>
    /\ UNCHANGED <<poolVars, routerVars, clusterVars, pipeVars, sentVars, connVars, permVars, foVars, lockVars, taskVars, bufVars>>

ReadNext ==
    \/ ReadCall
    \/ ReadParse
    \/ ReadRawFrame
    \/ \E n \in 1..Len(stream) : ReadBuf(n)

ReadSpec == ReadStart /\ [][ReadNext]_vars

C25_BoundsEnforced ==
    fout.fn = "parse_to_python" =>
        LET c == fin.declares
            null == fin.type \in {"*", "$"} /\ c = -1
        IN  CASE fin.type = "(" ->
                   fout.r.tag = (IF c > MAX_BIGNUMBER_LEN THEN "Protocol" ELSE "Ok")
              [] fin.type # "(" /\ fin.nest # 1 ->
                   fout.r.tag = (IF fin.nest > MAX_PARSE_DEPTH THEN "Protocol" ELSE "Ok")
              [] OTHER ->
                   IF (c < 0 /\ ~null) \/ (c > MAX_RESP_ELEMENTS /\ fin.type # "$")
                   THEN fout.r.tag = "Protocol" /\ fout.r.work = 0
                   ELSE fin.type # "$" => fout.r.tag = "Ok"

\* ------------------------------------------------- encoder / parser round trip
\* The values parse returns for the frames of a buffer, one after the
\* other, until the buffer is used up or a parse fails.
RECURSIVE parse_frames(_)
parse_frames(b) ==
    IF b = <<>> THEN <<>>
    ELSE LET r == parse(b, FALSE)
         IN  IF r.tag # "Ok" THEN <<r>>
             ELSE <<r.val>> \o parse_frames(Slice(b, r.n, Len(b)))

\* The Array of BulkStrings of an argument list.
ArrayOf(args) ==
    Value("Array", <<>>, 0, [i \in 1..Len(args) |-> Value("BulkString", args[i], 0, <<>>)])

\* C26: parse of encode_command(A) consumes the whole encoding and yields
\* the Array of the BulkStrings of A; encode_pipeline of a list of commands
\* is the concatenation of their encode_command encodings, and parsing it
\* frame by frame yields these Arrays in order.
C26_RoundTrip ==
    fout.fn = "encode" =>
        /\ \A i \in 1..Len(fin.cmds) :
               parse(fout.each[i], FALSE) = Ok(ArrayOf(fin.cmds[i]), Len(fout.each[i]))
        /\ fout.all = Concat(fout.each)
        /\ parse_frames(fout.all) = [i \in 1..Len(fin.cmds) |-> ArrayOf(fin.cmds[i])]

\* C26 witness: a pipeline of two commands, one of them with an argument
\* that holds CR LF, encoded.
C26_Witness ==
    /\ fout.fn = "encode"
    /\ Len(fin.cmds) = 2
    /\ fin.cmds[1] = << <<"a">>, <<CR, LF>> >>
    /\ fin.cmds[2] = << <<>> >>
    /\ Len(parse_frames(fout.all)) = 2

\* ------------------------------------------------- error kind by first token
\* C27: the first whitespace-delimited token alone selects the kind: a
\* token that is exactly one of the eight names gives its kind; MOVED or
\* ASK followed by a space, a slot that parses as u16, a space and an
\* address gives Moved / Ask with that slot and address; any other message
\* whose first token is MOVED or ASK gives Other of that token; every other
\* first token T, one that merely starts with a known name included, gives
\* Other(T).
C27_KindByFirstToken ==
    (fout.fn = "from_error_msg" /\ first_token(fin.msg) # <<>>) =>
        LET msg == fin.msg
            t == first_token(msg)
            rest == SubSeq(msg, 3, Len(msg))
            spaces == {k \in 1..Len(rest) : rest[k] = " "}
            sp == CHOOSE k \in spaces : \A j \in spaces : k <= j
            slot_str == SubSeq(rest, 1, sp - 1)
            well_formed ==
                /\ Len(msg) >= 2 /\ msg[1] \in {"MOVED", "ASK"} /\ msg[2] = " "
                /\ spaces # {} /\ parses_u16(slot_str)
        IN  IF Len(t) = 1 /\ t[1] \in DOMAIN KnownKinds
            THEN fout.kind = Kind(KnownKinds[t[1]], 0, <<>>, <<>>)
            ELSE IF well_formed
            THEN fout.kind = Kind(IF msg[1] = "MOVED" THEN "Moved" ELSE "Ask",
                                  magnitude(IF slot_str[1] = "+" THEN Tail(slot_str)
                                            ELSE slot_str),
                                  SubSeq(rest, sp + 1, Len(rest)), <<>>)
            ELSE fout.kind = Kind("Other", 0, <<>>, t)

\* ------------------------------------------------------ hash-tag locality
\* The hash tag of a key as the cluster specification words it: the bytes
\* between the first '{' and the first '}' after it, when there is such a
\* span and it is not empty; <<>> stands for "no tag".
HashTag(k) ==
    IF \E i \in 1..Len(k) : \E j \in (i + 2)..Len(k) :
           /\ k[i] = "{" /\ \A h \in 1..(i - 1) : k[h] # "{"
           /\ k[j] = "}" /\ \A h \in (i + 1)..(j - 1) : k[h] # "}"
    THEN LET i == CHOOSE i \in 1..Len(k) : k[i] = "{" /\ \A h \in 1..(i - 1) : k[h] # "{"
             j == CHOOSE j \in (i + 1)..Len(k) : k[j] = "}" /\ \A h \in (i + 1)..(j - 1) : k[h] # "}"
         IN  SubSeq(k, i + 1, j - 1)
    ELSE <<>>

Pipelines == 1..NumPipelines

\* The node whose permit call k awaits in pool.get(), NoAddr when it awaits none.
Awaited(k) ==
    CASE kpc[k] = "get" -> kguard[k]
      [] kpc[k] \in {"on_get", "ask_get"} -> ktarget[k]
      [] OTHER -> NoAddr

\* Whether call k holds a guard of node a's pool.
HoldsGuard(k, a) ==
    \/ kguard[k] = a /\ kpc[k] \in {"reading", "on_get", "on_read", "ask_get", "ask_read"}
    \/ ktarget[k] = a /\ kpc[k] \in {"on_read", "ask_read"}

\* pipeline(commands): the commands are grouped by target node.
KCall(k, groups) ==
    /\ pool_size > 0
    /\ kpc[k] = "idle"
    /\ kpc' = [kpc EXCEPT ![k] = "loop"]
    /\ kgroups' = [kgroups EXCEPT ![k] = groups]
    /\ UNCHANGED <<pool_size, node_permits, kguard, ktarget, kleft>>
    /\ UNCHANGED <<poolVars, routerVars, clusterVars, pipeVars, sentVars, connVars,
                   respVars, foVars, lockVars, taskVars, bufVars>>

\* `for (addr, group) in &groups`: the next group, or the end of the loop
\* and the return of the results.
KLoop(k) ==
    /\ kpc[k] = "loop"
    /\ \/ /\ kgroups[k] = {}
          /\ kpc' = [kpc EXCEPT ![k] = "done"]
          /\ UNCHANGED <<kgroups, kguard>>
       \/ \E a \in kgroups[k] :
              /\ kgroups' = [kgroups EXCEPT ![k] = @ \ {a}]
              /\ kguard' = [kguard EXCEPT ![k] = a]
              /\ kpc' = [kpc EXCEPT ![k] = "get"]
    /\ UNCHANGED <<pool_size, node_permits, ktarget, kleft>>
    /\ UNCHANGED <<poolVars, routerVars, clusterVars, pipeVars, sentVars, connVars,
                   respVars, foVars, lockVars, taskVars, bufVars>>

\* `let mut guard = pool.get().await?` for the group, `pool.get()` in
\* execute_on, and `target_pool.get()` of an ASK leg: one permit is taken.
KAcquire(k) ==
    /\ kpc[k] \in {"get", "on_get", "ask_get"}
    /\ node_permits[Awaited(k)] > 0
    /\ node_permits' = [node_permits EXCEPT ![Awaited(k)] = @ - 1]
    /\ kpc' = [kpc EXCEPT ![k] = CASE kpc[k] = "get" -> "reading"
                                   [] kpc[k] = "on_get" -> "on_read"
                                   [] kpc[k] = "ask_get" -> "ask_read"]
    /\ UNCHANGED <<pool_size, kgroups, kguard, ktarget, kleft>>
    /\ UNCHANGED <<poolVars, routerVars, clusterVars, pipeVars, sentVars, connVars,
                   respVars, foVars, lockVars, taskVars, bufVars>>

\* The read loop of a group, holding the group's guard: a reply that is
\* stored leaves the call where it is; MOVED calls execute_on(new_addr,
\* MAX_REDIRECTS - 1); ASK gets the target's pool; after the last reply
\* the guard is dropped.
KRead(k, reply, a) ==
    /\ kpc[k] = "reading"
    /\ a # kguard[k]
    /\ \/ /\ reply = "MOVED"
          /\ ktarget' = [ktarget EXCEPT ![k] = a]
          /\ kleft' = [kleft EXCEPT ![k] = MAX_REDIRECTS - 1]
          /\ kpc' = [kpc EXCEPT ![k] = "on_get"]
          /\ UNCHANGED <<node_permits, kguard>>
       \/ /\ reply = "ASK"
          /\ ktarget' = [ktarget EXCEPT ![k] = a]
          /\ kpc' = [kpc EXCEPT ![k] = "ask_get"]
          /\ UNCHANGED <<node_permits, kguard, kleft>>
       \/ /\ reply = "last"
          /\ node_permits' = [node_permits EXCEPT ![kguard[k]] = @ + 1]
          /\ kguard' = [kguard EXCEPT ![k] = NoAddr]
          /\ kpc' = [kpc EXCEPT ![k] = "loop"]
          /\ UNCHANGED <<ktarget, kleft>>
    /\ UNCHANGED <<pool_size, kgroups>>
    /\ UNCHANGED <<poolVars, routerVars, clusterVars, pipeVars, sentVars, connVars,
                   respVars, foVars, lockVars, taskVars, bufVars>>

\* Dropping every guard the call holds: the pipeline returns an error.
KFail(k) ==
    /\ node_permits' = [n \in Addrs |->
           node_permits[n] + (IF kguard[k] = n THEN 1 ELSE 0)
                           + (IF ktarget[k] = n THEN 1 ELSE 0)]
    /\ kguard' = [kguard EXCEPT ![k] = NoAddr]
    /\ ktarget' = [ktarget EXCEPT ![k] = NoAddr]
    /\ kpc' = [kpc EXCEPT ![k] = "done"]
    /\ UNCHANGED kleft

\* execute_on after its read_response, holding its own guard as well:
\* MOVED and TRYAGAIN drop that guard and call execute_on again, ASK drops
\* it and gets the target's pool, CLUSTERDOWN and a redirect with no
\* redirects left are errors, any other reply is the result.
KOnRead(k, reply, a) ==
    /\ kpc[k] = "on_read"
    /\ a # ktarget[k]
    /\ \/ /\ reply \in {"MOVED", "TRYAGAIN", "ASK"}
          /\ kleft[k] > 0
          /\ node_permits' = [node_permits EXCEPT ![ktarget[k]] = @ + 1]
          /\ ktarget' = [ktarget EXCEPT ![k] = IF reply = "TRYAGAIN" THEN @ ELSE a]
          /\ kleft' = [kleft EXCEPT ![k] = IF reply = "ASK" THEN @ ELSE @ - 1]
          /\ kpc' = [kpc EXCEPT ![k] = IF reply = "ASK" THEN "ask_get" ELSE "on_get"]
          /\ UNCHANGED kguard
       \/ /\ \/ reply \in {"MOVED", "TRYAGAIN", "ASK"} /\ kleft[k] = 0
             \/ reply = "CLUSTERDOWN"
          /\ KFail(k)
       \/ /\ reply = "last"
          /\ node_permits' = [node_permits EXCEPT ![ktarget[k]] = @ + 1]
          /\ ktarget' = [ktarget EXCEPT ![k] = NoAddr]
          /\ kpc' = [kpc EXCEPT ![k] = "reading"]
          /\ UNCHANGED <<kguard, kleft>>
    /\ UNCHANGED <<pool_size, kgroups>>
    /\ UNCHANGED <<poolVars, routerVars, clusterVars, pipeVars, sentVars, connVars,
                   respVars, foVars, lockVars, taskVars, bufVars>>

\* The ASK leg after the reply to its command: the target's guard is
\* dropped and the read loop goes on.
KAskRead(k) ==
    /\ kpc[k] = "ask_read"
    /\ node_permits' = [node_permits EXCEPT ![ktarget[k]] = @ + 1]
    /\ ktarget' = [ktarget EXCEPT ![k] = NoAddr]
    /\ kpc' = [kpc EXCEPT ![k] = "reading"]
    /\ UNCHANGED <<pool_size, kgroups, kguard, kleft>>
    /\ UNCHANGED <<poolVars, routerVars, clusterVars, pipeVars, sentVars, connVars,
                   respVars, foVars, lockVars, taskVars, bufVars>>

PermitStart ==
    /\ NoPool /\ NoCluster /\ NoPipe /\ NoSentinel /\ NoConnecting /\ NoReading
    /\ NoFailovers /\ NoLocking /\ NoTask /\ NoBuffer
    /\ pool_size \in 1..PoolSize
    /\ node_permits = [a \in Addrs |-> pool_size]
    /\ kpc = [k \in Pipelines |-> "idle"]
    /\ kgroups = [k \in Pipelines |-> {}]
    /\ kguard = [k \in Pipelines |-> NoAddr]
    /\ ktarget = [k \in Pipelines |-> NoAddr]
    /\ kleft = [k \in Pipelines |-> 0]

PermitNext ==
    \E k \in Pipelines :
        \/ \E groups \in SUBSET Addrs : KCall(k, groups)
        \/ KLoop(k)
        \/ KAcquire(k)
        \/ \E reply \in {"MOVED", "ASK", "last"}, a \in Addrs : KRead(k, reply, a)
        \/ \E reply \in {"MOVED", "ASK", "TRYAGAIN", "CLUSTERDOWN", "last"}, a \in Addrs :
               KOnRead(k, reply, a)
        \/ KAskRead(k)

PermitSpec == PermitStart /\ [][PermitNext]_vars

\* C29: no pipeline call is left waiting for a pool permit that only the
\* call itself, or calls that wait in turn, can release: there is no
\* non-empty set of calls each of which awaits a permit of a node whose
\* permits are all held by calls of the set.
C29_NoPermitCycle ==
    ~ \E W \in (SUBSET Pipelines) \ {{}} :
          \A k \in W :
              /\ Awaited(k) # NoAddr
              /\ node_permits[Awaited(k)] = 0
              /\ \A h \in Pipelines : HoldsGuard(h, Awaited(k)) => h \in W

\* --------------------------------------------- concurrent sentinel failover
\* SentinelRouter::failover (sentinel.rs:87-98) called by several execute
\* calls at once on the multi-thread runtime (runtime.rs:20).  master_addr
\* and master_pool sit behind two separate locks: a call reads master_addr,
\* then writes master_pool, then writes master_addr, and between any two of
\* these the other calls may run.
Failovers == 1..NumFailovers

\* Pools create_master_pool may make (identities 1..MaxPools).
MaxPools == 4

\* `let new_addr = resolve_master(..).await?` answering addr.
FoResolve(f, addr) ==
    /\ fpc[f] = "idle"
    /\ next_pool + Cardinality({g \in Failovers : fpc[g] \in {"resolved", "read"}}) <= MaxPools
    /\ new_addr' = [new_addr EXCEPT ![f] = addr]
    /\ fpc' = [fpc EXCEPT ![f] = "resolved"]
    /\ UNCHANGED <<master_pool, current, next_pool>>
    /\ UNCHANGED <<poolVars, routerVars, clusterVars, pipeVars, sentVars, connVars,
                   respVars, permVars, lockVars, taskVars, bufVars>>

\* `let current = self.master_addr.read().clone()` and the comparison:
\* with the same address the call returns Ok(()).
FoRead(f) ==
    /\ fpc[f] = "resolved"
    /\ IF new_addr[f] # master_addr
       THEN /\ current' = [current EXCEPT ![f] = master_addr]
            /\ fpc' = [fpc EXCEPT ![f] = "read"]
            /\ UNCHANGED new_addr
       ELSE /\ current' = [current EXCEPT ![f] = NoAddr]
            /\ new_addr' = [new_addr EXCEPT ![f] = NoAddr]
            /\ fpc' = [fpc EXCEPT ![f] = "idle"]
    /\ UNCHANGED <<master_pool, next_pool>>
    /\ UNCHANGED <<poolVars, routerVars, clusterVars, pipeVars, sentVars, connVars,
                   respVars, permVars, lockVars, taskVars, bufVars>>

\* `*self.master_pool.write() = Arc::new(create_master_pool(&new_addr, ..))`
FoSetPool(f) ==
    /\ fpc[f] = "read"
    /\ master_pool' = [addr |-> new_addr[f], id |-> next_pool]
    /\ next_pool' = next_pool + 1
    /\ fpc' = [fpc EXCEPT ![f] = "pool_set"]
    /\ UNCHANGED <<new_addr, current>>
    /\ UNCHANGED <<poolVars, routerVars, clusterVars, pipeVars, sentVars, connVars,
                   respVars, permVars, lockVars, taskVars, bufVars>>

\* `*self.master_addr.write() = new_addr`, and the call returns Ok(()).
FoSetAddr(f) ==
    /\ fpc[f] = "pool_set"
    /\ master_addr' = new_addr[f]
    /\ fpc' = [fpc EXCEPT ![f] = "idle"]
    /\ new_addr' = [new_addr EXCEPT ![f] = NoAddr]
    /\ current' = [current EXCEPT ![f] = NoAddr]
    /\ UNCHANGED <<master_pool, next_pool>>
    /\ UNCHANGED <<spc, attempt, ssends, sleeps, failovers, slast_err, sret,
                   retry_count, cfg_password, opened, auth_sent>>
    /\ UNCHANGED <<poolVars, routerVars, clusterVars, pipeVars, connVars, respVars,
                   permVars, lockVars, taskVars, bufVars>>

\* After SentinelRouter::new: the pool is the one made for the address.
FailoverStart ==
    /\ NoPool /\ NoCluster /\ NoPipe /\ NoConnecting /\ NoReading /\ NoPipelines
    /\ NoLocking /\ NoTask /\ NoBuffer
    /\ spc = "idle" /\ attempt = 0 /\ ssends = 0 /\ sleeps = 0 /\ failovers = 0
    /\ slast_err = "none" /\ sret = [status |-> "none", val |-> "none"]
    /\ retry_count = 0 /\ cfg_password = FALSE /\ opened = {} /\ auth_sent = {}
    /\ master_addr \in Addrs
    /\ master_pool = [addr |-> master_addr, id |-> 1]
    /\ next_pool = 2
    /\ fpc = [f \in Failovers |-> "idle"]
    /\ new_addr = [f \in Failovers |-> NoAddr]
    /\ current = [f \in Failovers |-> NoAddr]

FailoverNext ==
    \E f \in Failovers :
        \/ \E addr \in Addrs : FoResolve(f, addr)
        \/ FoRead(f)
        \/ FoSetPool(f)
        \/ FoSetAddr(f)

FailoverSpec == FailoverStart /\ [][FailoverNext]_vars

\* C30: whenever no failover() call is between its two writes, the pool in
\* master_pool is a pool of the address in master_addr; and whenever
\* master_pool is replaced, the new pool is of another address than the
\* pool it replaces.
C30_PoolFollowsAddr ==
    /\ []((\A f \in Failovers : fpc[f] # "pool_set") => master_pool.addr = master_addr)
    /\ [][master_pool' # master_pool => master_pool'.addr # master_pool.addr]_vars

\* ------------------------------------------------- the node-pool registry
\* C31: in every state every primary and replica address of the slot map
\* has a pool in the registry, and no step takes a pool out of the registry.
C31_RegistryCoversMap ==
    /\ [](map_addrs(slot_map) \subseteq nodes)
    /\ [][nodes \subseteq nodes']_vars

\* C32: execute returns no MOVED, ASK or TRYAGAIN reply as a successful
\* value.
C32_NoRedirectAsValue ==
    ~(xpc = "done" /\ xret.status = "ok" /\ xret.reply \in {"moved", "ask", "tryagain"})

\* ------------------------------------------------- the slot map's RwLock
\* The tasks that use ClusterRouter.slot_map, step by step: a task takes
\* the lock (read() for a lookup, write() for a MOVED point-update or a
\* refresh swap), searches the ranges, loads or stores, and drops the guard.
\* Between any two steps of a task the other tasks may run.
Lockers == 1..NumLockers

\* slot_map.read() returns while no task holds the write lock.
can_read(writer, readers) == writer = 0

\* A write() that does not wait for the readers to leave.
can_write_beside_readers(writer, readers) == writer = 0

\* slot_map.write() returns while no task holds the lock at all.
can_write(writer, readers) == writer = 0 /\ readers = {}

\* What the tasks do with the slot map.
LockOps ==
    {[kind |-> k, slot |-> s, addr |-> NoAddr, map |-> <<>>] :
        k \in {"master", "replica"}, s \in Slots}
    \cup {[kind |-> "first", slot |-> NoSlot, addr |-> NoAddr, map |-> <<>>]}
    \cup {[kind |-> "update", slot |-> s, addr |-> a, map |-> <<>>] : s \in Slots, a \in Addrs}
    \cup {[kind |-> "swap", slot |-> NoSlot, addr |-> NoAddr, map |-> m] :
            m \in ClusterSlotsReplies}

IsWrite(op) == op.kind \in {"update", "swap"}

\* What an operation returns, or leaves, when it is applied to a map whole.
Applied(op, ranges) ==
    CASE op.kind = "master" -> master_for_slot(ranges, op.slot)
      [] op.kind = "replica" -> replica_for_slot(ranges, op.slot)
      [] op.kind = "first" -> IF ranges = <<>> THEN NoAddr ELSE ranges[1].master
      [] op.kind = "update" -> update_slot_master(ranges, op.slot, op.addr)
      [] op.kind = "swap" -> op.map

\* A task starts execute_routed's lookup, a Moved arm's point-update or
\* refresh_slots_from's swap: self.slot_map.read() / self.slot_map.write()
\* returns once the lock allows it.
LockAcquire(t, op) ==
    /\ lpc[t] = "idle"
    /\ IF IsWrite(op) THEN can_write(lock_writer, lock_readers)
       ELSE can_read(lock_writer, lock_readers)
    /\ slot_lock' = [slot_lock EXCEPT
           !.lock_writer = IF IsWrite(op) THEN t ELSE @,
           !.lock_readers = IF IsWrite(op) THEN @ ELSE @ \cup {t},
           !.lop[t] = op,
           !.lpc[t] = IF op.kind = "swap" THEN "access" ELSE "search"]
    /\ UNCHANGED <<poolVars, routerVars, clusterVars, pipeVars, sentVars, connVars,
                   respVars, permVars, foVars, taskVars, bufVars>>

\* ranges.binary_search_by(..) of a lookup or a point-update, ranges.first()
\* of a key-less command: the index of the range (0 for none).
LockSearch(t) ==
    /\ lpc[t] = "search"
    /\ slot_lock' = [slot_lock EXCEPT
           !.lidx[t] = IF lop[t].kind = "first" THEN (IF slot_map = <<>> THEN 0 ELSE 1)
                       ELSE range_of(slot_map, lop[t].slot),
           !.lpc[t] = "access"]
    /\ UNCHANGED <<poolVars, routerVars, clusterVars, pipeVars, sentVars, connVars,
                   respVars, permVars, foVars, taskVars, bufVars>>

\* The load of ranges[i].master or of a replica, the store of
\* ranges[i].master, or the store of the whole map.  An index beyond the
\* ranges is a panic (the lookup then returns -1 here, the store is lost).
LockAccess(t) ==
    /\ lpc[t] = "access"
    /\ LET i == lidx[t]
           op == lop[t]
           inside == i \in 1..Len(slot_map)
           loaded ==
               CASE op.kind \in {"master", "first"} ->
                      IF i = 0 THEN NoAddr
                      ELSE IF inside THEN slot_map[i].master ELSE -1
                 [] op.kind = "replica" ->
                      IF i = 0 THEN NoAddr
                      ELSE IF ~inside THEN -1
                      ELSE IF slot_map[i].replicas = <<>> THEN slot_map[i].master
                      ELSE slot_map[i].replicas[(op.slot % Len(slot_map[i].replicas)) + 1]
                 [] OTHER -> lseen[t]
       IN  /\ slot_map' =
                 CASE op.kind = "update" ->
                        IF inside THEN [slot_map EXCEPT ![i].master = op.addr] ELSE slot_map
                   [] op.kind = "swap" -> op.map
                   [] OTHER -> slot_map
           /\ slot_lock' = [slot_lock EXCEPT !.lseen[t] = loaded, !.lpc[t] = "unlock"]
    /\ UNCHANGED <<nodes, read_from_replicas, xpc, xcmd, xaddr, redirects_left, sends,
                   followed, xvia, xwire, xret, last_moved>>
    /\ UNCHANGED <<poolVars, routerVars, pipeVars, sentVars, connVars,
                   respVars, permVars, foVars, taskVars, bufVars>>

\* The guard is dropped.  A write is complete now: `history` is the map the
\* completed writes give when each is applied whole.
LockRelease(t) ==
    /\ lpc[t] = "unlock"
    /\ slot_lock' = [slot_lock EXCEPT
           !.lock_writer = IF IsWrite(lop[t]) THEN 0 ELSE @,
           !.lock_readers = IF IsWrite(lop[t]) THEN @ ELSE @ \ {t},
           !.history = IF IsWrite(lop[t]) THEN Applied(lop[t], @) ELSE @,
           !.lpc[t] = "idle",
           !.lop[t] = NoOp,
           !.lidx[t] = 0,
           !.lseen[t] = NoAddr]
    /\ UNCHANGED <<poolVars, routerVars, clusterVars, pipeVars, sentVars, connVars,
                   respVars, permVars, foVars, taskVars, bufVars>>

LockStart ==
    /\ NoPool /\ ClusterInit /\ NoPipe /\ NoSentinel /\ NoConnecting /\ NoReading
    /\ NoPipelines /\ NoFailovers /\ NoTask /\ NoBuffer
    /\ slot_lock = [lock_writer |-> 0, lock_readers |-> {},
                    lpc |-> [t \in Lockers |-> "idle"],
                    lop |-> [t \in Lockers |-> NoOp],
                    lidx |-> [t \in Lockers |-> 0],
                    lseen |-> [t \in Lockers |-> NoAddr],
                    history |-> slot_map]

LockNext ==
    \E t \in Lockers :
        \/ \E op \in LockOps : LockAcquire(t, op)
        \/ LockSearch(t)
        \/ LockAccess(t)
        \/ LockRelease(t)

LockSpec == LockStart /\ [][LockNext]_vars

\* C33: a lookup returns what the map left by the writes completed so far
\* gives for it, and whenever no write is under way the slot map is the map
\* the completed writes give when each is applied as one whole step.
C33_Linearizable ==
    /\ lock_writer = 0 => slot_map = history
    /\ \A t \in 1..NumLockers :
           lpc[t] = "unlock" /\ ~IsWrite(lop[t]) => lseen[t] = Applied(lop[t], history)

\* Reached: a lookup of slot 0 returns node 2, which a point-update of
\* another task has made the primary of the slot.
C33_Witness ==
    /\ lpc[1] = "unlock" /\ lop[1].kind = "master" /\ lop[1].slot = 0 /\ lseen[1] = 2
    /\ lpc[2] = "idle"
    /\ master_for_slot(history, 0) = 2

\* ------------------------------------------- the background refresh task
\* ClusterRouter::new (cluster.rs:323-376) and the task it spawns, with the
\* users of the router cloning and dropping their Arc.  The router is
\* alive while `strong` is positive or the task holds the Arc it upgraded.
\* Seeds ClusterRouter::new is given.
MaxSeeds == 2
\* Strong references the users hold at once.
MaxRefs == 2
\* Wake-ups of the refresh task.
MaxTicks == 2

\* `match router.refresh_slots_from(&addr).await` on the next seed: Ok
\* installs the pools and the map and leaves the loop.
NewSeedOk(new_map) ==
    /\ npc = "seeds"
    /\ seeds_left > 0
    /\ nodes' = nodes \cup map_addrs(new_map)
    /\ slot_map' = new_map
    /\ refresher' = [refresher EXCEPT !.npc = "spawn"]
    /\ UNCHANGED <<read_from_replicas, xpc, xcmd, xaddr, redirects_left, sends,
                   followed, xvia, xwire, xret, last_moved>>
    /\ UNCHANGED <<poolVars, routerVars, pipeVars, sentVars, connVars,
                   respVars, permVars, foVars, lockVars, bufVars>>

\* The seed fails: the next seed, or Err("could not connect to any seed
\* node") after the last one, and the router is dropped.
NewSeedErr ==
    /\ npc = "seeds"
    /\ seeds_left > 0
    /\ refresher' = [refresher EXCEPT
           !.seeds_left = @ - 1,
           !.npc = IF seeds_left = 1 THEN "failed" ELSE @,
           !.strong = IF seeds_left = 1 THEN 0 ELSE @]
    /\ UNCHANGED <<poolVars, routerVars, clusterVars, pipeVars, sentVars, connVars,
                   respVars, permVars, foVars, lockVars, bufVars>>

\* A new() that spawns the task before it has tried a seed.
NewSpawn_early ==
    /\ npc = "seeds"
    /\ tpc = "none"
    /\ refresher' = [refresher EXCEPT !.tpc = "sleep"]
    /\ UNCHANGED <<poolVars, routerVars, clusterVars, pipeVars, sentVars, connVars,
                   respVars, permVars, foVars, lockVars, bufVars>>

\* `let weak = Arc::downgrade(&router); runtime::spawn(..); Ok(router)`
NewSpawn ==
    /\ npc = "spawn"
    /\ refresher' = [refresher EXCEPT !.tpc = "sleep", !.npc = "returned"]
    /\ UNCHANGED <<poolVars, routerVars, clusterVars, pipeVars, sentVars, connVars,
                   respVars, permVars, foVars, lockVars, bufVars>>

\* A user clones its Arc<ClusterRouter>, or drops one.
UserRef(d) ==
    /\ npc = "returned"
    /\ strong > 0
    /\ strong + d \in 0..MaxRefs
    /\ refresher' = [refresher EXCEPT !.strong = @ + d]
    /\ UNCHANGED <<poolVars, routerVars, clusterVars, pipeVars, sentVars, connVars,
                   respVars, permVars, foVars, lockVars, bufVars>>

\* The sleep ends: `weak.upgrade()` fails when the router is gone and the
\* task breaks out of its loop; else it picks `nodes.keys().next()` and
\* starts refresh_slots_from, or goes back to sleep with no node.
TaskWake ==
    /\ tpc = "sleep"
    /\ nticks < MaxTicks
    /\ refresher' = [refresher EXCEPT
           !.nticks = @ + 1,
           !.tpc = IF strong = 0 THEN "exited" ELSE IF nodes = {} THEN @ ELSE "connect",
           !.upgraded = IF strong # 0 /\ nodes # {} THEN TRUE ELSE @]
    /\ UNCHANGED <<poolVars, routerVars, clusterVars, pipeVars, sentVars, connVars,
                   respVars, permVars, foVars, lockVars, bufVars>>

\* A failing refresh that leaves an empty slot map behind.
TaskFail_clears_map ==
    /\ tpc \in {"connect", "init", "slots", "parse"}
    /\ slot_map' = <<>>
    /\ refresher' = [refresher EXCEPT
           !.tpc = "sleep", !.tnew = <<>>, !.upgraded = FALSE, !.tlast = "err"]
    /\ UNCHANGED <<nodes, read_from_replicas, xpc, xcmd, xaddr, redirects_left, sends,
                   followed, xvia, xwire, xret, last_moved>>
    /\ UNCHANGED <<poolVars, routerVars, pipeVars, sentVars, connVars,
                   respVars, permVars, foVars, lockVars, bufVars>>

\* refresh_slots_from returns Err through one of its `?` (the connect, the
\* handshake, CLUSTER SLOTS or from_cluster_slots): `let _ =` drops the
\* error, the iteration ends, its Arc is dropped and the task sleeps again.
TaskFail ==
    /\ tpc \in {"connect", "init", "slots", "parse"}
    /\ refresher' = [refresher EXCEPT
           !.tpc = "sleep", !.tnew = <<>>, !.upgraded = FALSE, !.tlast = "err"]
    /\ UNCHANGED <<poolVars, routerVars, clusterVars, pipeVars, sentVars, connVars,
                   respVars, permVars, foVars, lockVars, bufVars>>

\* refresh_slots_from, one step that succeeds: the connect, conn.init, the
\* CLUSTER SLOTS round trip, from_cluster_slots giving new_map.
TaskStep(new_map) ==
    /\ tpc \in {"connect", "init", "slots", "parse"}
    /\ refresher' = [refresher EXCEPT
           !.tpc = CASE tpc = "connect" -> "init" [] tpc = "init" -> "slots"
                     [] tpc = "slots" -> "parse" [] tpc = "parse" -> "pools",
           !.tnew = IF tpc = "parse" THEN new_map ELSE @]
    /\ UNCHANGED <<poolVars, routerVars, clusterVars, pipeVars, sentVars, connVars,
                   respVars, permVars, foVars, lockVars, bufVars>>

\* refresh_slots_from: ensure_pool_for every node of new_map, under
\* nodes.write().
TaskPools ==
    /\ tpc = "pools"
    /\ nodes' = nodes \cup map_addrs(tnew)
    /\ refresher' = [refresher EXCEPT !.tpc = "install"]
    /\ UNCHANGED <<slot_map, read_from_replicas, xpc, xcmd, xaddr, redirects_left, sends,
                   followed, xvia, xwire, xret, last_moved>>
    /\ UNCHANGED <<poolVars, routerVars, pipeVars, sentVars, connVars,
                   respVars, permVars, foVars, lockVars, bufVars>>

\* `*self.slot_map.write() = new_map; Ok(())`, and the iteration ends.
TaskInstall ==
    /\ tpc = "install"
    /\ slot_map' = tnew
    /\ refresher' = [refresher EXCEPT
           !.tnew = <<>>, !.upgraded = FALSE, !.tpc = "sleep", !.tlast = "ok"]
    /\ UNCHANGED <<nodes, read_from_replicas, xpc, xcmd, xaddr, redirects_left, sends,
                   followed, xvia, xwire, xret, last_moved>>
    /\ UNCHANGED <<poolVars, routerVars, pipeVars, sentVars, connVars,
                   respVars, permVars, foVars, lockVars, bufVars>>

\* ClusterRouter::new has made the router: no pool, the default slot map,
\* one Arc, and seeds to try.
TaskStart ==
    /\ NoPool /\ NoPipe /\ NoSentinel /\ NoConnecting /\ NoReading
    /\ NoPipelines /\ NoFailovers /\ NoLocking /\ NoBuffer
    /\ slot_map = <<>>
    /\ nodes = {}
    /\ read_from_replicas \in BOOLEAN
    /\ xpc = "idle"
    /\ xcmd = [slot |-> NoSlot, read |-> FALSE]
    /\ xaddr = NoAddr
    /\ redirects_left = MAX_REDIRECTS
    /\ sends = 0
    /\ followed = 0
    /\ xvia = "route"
    /\ xwire = <<>>
    /\ xret = NoXRet
    /\ last_moved = NoMove
    /\ refresher \in {[tpc |-> "none", tnew |-> <<>>, strong |-> 1, upgraded |-> FALSE,
                        npc |-> "seeds", seeds_left |-> n, nticks |-> 0, tlast |-> "none"] :
                           n \in 1..MaxSeeds}

TaskNext ==
    \/ \E new_map \in ClusterSlotsReplies : NewSeedOk(new_map)
    \/ NewSeedErr
    \/ NewSpawn
    \/ \E d \in {-1, 1} : UserRef(d)
    \/ TaskWake
    \/ TaskFail
    \/ \E new_map \in ClusterSlotsReplies : TaskStep(new_map)
    \/ TaskPools
    \/ TaskInstall

TaskSpec == TaskStart /\ [][TaskNext]_vars

\* C34: no step of a refresh before from_cluster_slots has succeeded
\* changes the slot map or the registry, and a refresh that fails at the
\* connect, the handshake, CLUSTER SLOTS or the parsing leaves both as they
\* were, hands no result to any call, and puts the task back to sleep for
\* its next tick.
C34_FailedRefreshChangesNothing ==
    [][(tpc \in {"connect", "init", "slots", "parse"} =>
          /\ slot_map' = slot_map
          /\ nodes' = nodes
          /\ xret' = xret /\ ret' = ret /\ pret' = pret
          /\ (tpc' = "sleep" => tlast' = "err" /\ ~upgraded' /\ npc' = npc))]_vars

\* Reached: the refresh of the first tick has failed and the task is at the
\* refresh of its next tick, the slot map still the one new installed.
C34_Witness ==
    /\ tpc = "connect"
    /\ nticks = 2
    /\ tlast = "err"
    /\ slot_map # <<>>

ProbeSlots == {0, 1, 2, 3, SLOT_COUNT - 1}

\* C35: every slot map from_cluster_slots accepts is sorted by start, its
\* ranges satisfy start <= end <= 16383, no two of them overlap, together
\* they cover 0 .. 16383, and master_for_slot finds the one range of every
\* slot.
C35_InstalledMapWellFormed ==
    fout.fn = "from_cluster_slots" /\ fout.r.ok =>
        LET ranges == fout.r.ranges
            n == Len(ranges)
        IN  /\ \A i \in 1..(n - 1) : ranges[i].start <= ranges[i + 1].start
            /\ \A i \in 1..n : ranges[i].start <= ranges[i].end /\ ranges[i].end <= SLOT_COUNT - 1
            /\ \A i \in 1..(n - 1) : ranges[i].end < ranges[i + 1].start
            /\ n > 0 /\ ranges[1].start = 0 /\ ranges[n].end = SLOT_COUNT - 1
            /\ \A i \in 1..(n - 1) : ranges[i + 1].start = ranges[i].end + 1
            /\ \A s \in ProbeSlots :
                   /\ Cardinality({i \in 1..n : ranges[i].start <= s /\ s <= ranges[i].end}) = 1
                   /\ range_of(ranges, s) # 0

\* ====================================================== the read buffer
\* connection/tcp.rs.  RedisConnection.buf by its sizes only: capacity,
\* length, and the frame the server is sending.  Sizes are scaled: the
\* source starts the buffer at 65,536 bytes and wants 4,096 bytes of room
\* before a read.
DEFAULT_BUF_CAPACITY == 8

\* Room below which read_response grows the buffer (4096 in the source).
ReadRoom == 2

\* Largest max_buffer_size configured, longest frame sent, calls made.
MaxBufSize == 12

MaxFrameLen == 14

MaxBufCalls == 2

greater(a, b) == IF a >= b THEN a ELSE b

\* BytesMut::reserve(additional): nothing when the room is there; else a
\* capacity of at least len + additional.  How much more is the
\* allocator's choice: exactly that, the capacity the buffer was created
\* with, or twice the present one.
reserve(cap, len, additional) ==
    IF cap - len >= additional THEN {cap}
    ELSE { len + additional,
           greater(len + additional, DEFAULT_BUF_CAPACITY),
           greater(len + additional, 2 * cap) }

\* A call of read_response or read_raw_response (raw); the server answers
\* with one frame of `need` bytes.
BufCall(raw, need) ==
    /\ bpc \in {"idle", "returned"}
    /\ bcalls < MaxBufCalls
    /\ conn_buf' = [conn_buf EXCEPT
           !.bcalls = @ + 1, !.braw = raw, !.bneed = need, !.bleft = need, !.bpc = "parse"]
    /\ UNCHANGED <<poolVars, routerVars, clusterVars, pipeVars, sentVars, connVars,
                   respVars, permVars, foVars, lockVars, taskVars>>

\* The head of the loop.  read_raw_response: resp_frame_len on the buffer,
\* split_to(len) of a complete frame (the buffer keeps the tail of its
\* allocation).  read_response: split() takes the bytes (the buffer keeps
\* the unused tail), parse, and on Incomplete extend_from_slice puts them
\* back, reserving when the tail is too short.
BufParse ==
    /\ bpc = "parse"
    /\ IF blen = 0
       THEN conn_buf' = [conn_buf EXCEPT !.bpc = "grow"]
       ELSE IF blen >= bneed
       THEN conn_buf' = [conn_buf EXCEPT !.bpc = "returned", !.blen = 0, !.bcap = bcap - blen]
       ELSE \E c \in (IF braw THEN {bcap} ELSE reserve(bcap - blen, 0, blen)) :
                conn_buf' = [conn_buf EXCEPT !.bpc = "grow", !.bcap = c]
    /\ UNCHANGED <<poolVars, routerVars, clusterVars, pipeVars, sentVars, connVars,
                   respVars, permVars, foVars, lockVars, taskVars>>

\* "Need more data": the growth of the buffer, or the Protocol error
\* "RESP message too large".
BufGrow ==
    /\ bpc = "grow"
    /\ IF bcap - blen < ReadRoom
       THEN LET new_cap == greater(bcap * 2, DEFAULT_BUF_CAPACITY)
            IN  IF new_cap > bmax
                THEN IF bcap >= bmax
                     THEN conn_buf' = [conn_buf EXCEPT !.bpc = "too_large"]
                     ELSE \E c \in reserve(bcap, blen, bmax - bcap) :
                              conn_buf' = [conn_buf EXCEPT !.bpc = "read", !.bcap = c]
                ELSE \E c \in reserve(bcap, blen, new_cap - bcap) :
                         conn_buf' = [conn_buf EXCEPT !.bpc = "read", !.bcap = c]
       ELSE conn_buf' = [conn_buf EXCEPT !.bpc = "read"]
    /\ UNCHANGED <<poolVars, routerVars, clusterVars, pipeVars, sentVars, connVars,
                   respVars, permVars, foVars, lockVars, taskVars>>

\* stream.read_buf(&mut self.buf): n bytes of the frame arrive, at most
\* the room the buffer has.
BufRead(n) ==
    /\ bpc = "read"
    /\ n >= 1 /\ n <= bleft /\ n <= bcap - blen
    /\ conn_buf' = [conn_buf EXCEPT !.blen = @ + n, !.bleft = @ - n, !.bpc = "parse"]
    /\ UNCHANGED <<poolVars, routerVars, clusterVars, pipeVars, sentVars, connVars,
                   respVars, permVars, foVars, lockVars, taskVars>>

\* connect_with_max_buf: BytesMut::with_capacity(DEFAULT_BUF_CAPACITY) and
\* the max_buf_size of the configuration.
BufStart ==
    /\ PoolInit /\ cfg_tls = FALSE
    /\ NoCluster /\ NoPipe /\ NoSentinel /\ NoConnecting /\ NoReading
    /\ NoPipelines /\ NoFailovers /\ NoLocking /\ NoTask
    /\ conn_buf \in {[bcap |-> DEFAULT_BUF_CAPACITY, blen |-> 0, bmax |-> m, bneed |-> 0,
                       bleft |-> 0, bpc |-> "idle", braw |-> FALSE, bcalls |-> 0] :
                          m \in 1..MaxBufSize}

BufNext ==
    \/ \E raw \in BOOLEAN, need \in 1..MaxFrameLen : BufCall(raw, need)
    \/ BufParse
    \/ BufGrow
    \/ \E n \in 1..MaxFrameLen : BufRead(n)

BufSpec == BufStart /\ [][BufNext]_vars

\* C36: the capacity of the read buffer never exceeds max_buffer_size.
C36_CapacityWithinMax ==
    bpc # "closed" => bcap <= bmax

\* C37: the "RESP message too large" error is returned only for a frame
\* longer than max_buffer_size, and no frame longer than max_buffer_size
\* is returned.
C37_TooLargeIffLonger ==
    /\ bpc = "too_large" => bneed > bmax
    /\ bpc = "returned" => bneed <= bmax

\* ------------------------------------------ fused and tree integer parser
\* C38: on every decimal the fused parser gives what the tree parser
\* gives: the same integer, or a Protocol error where the tree parser
\* gives one; and an integer frame is accepted by parse_to_python exactly
\* when parse accepts it.
C38_FusedAgreesWithTree ==
    fout.fn = "parse_int" =>
        /\ fout.fused = fout.tree
        /\ fout.fused_frame = fout.tree_frame

\* ---------------------------------------------- the frame of a point update
\* The ranges of a map that contain the slot.
Containing(ranges, slot) ==
    {i \in 1..Len(ranges) : ranges[i].start <= slot /\ slot <= ranges[i].end}

\* C39: update_slot_master(s, a) keeps the number of ranges and every
\* range's start, end and replicas; it changes the primary of at most one
\* range, a range that contains s, to a; it leaves the map as it was when
\* no range contains s; and when exactly one range contains s in a map of
\* disjoint ranges, that range's primary is a afterwards.
C39_PointUpdateFrame ==
    fout.fn = "update_slot_master" =>
        LET old == fin.map
            new == fout.map
            changed == {i \in 1..Len(old) : new[i] # old[i]}
            disjoint == \A i \in 1..(Len(old) - 1) :
                            old[i].start <= old[i].end /\ old[i].end < old[i + 1].start
        IN  /\ Len(new) = Len(old)
            /\ \A i \in 1..Len(old) :
                   /\ new[i].start = old[i].start
                   /\ new[i].end = old[i].end
                   /\ new[i].replicas = old[i].replicas
            /\ Cardinality(changed) <= 1
            /\ changed \subseteq Containing(old, fin.slot)
            /\ \A i \in changed : new[i].master = fin.addr
            /\ Containing(old, fin.slot) = {} => new = old
            /\ disjoint => \A i \in Containing(old, fin.slot) : new[i].master = fin.addr

\* Reached: in a map of two ranges the second has a new primary and the
\* first is as it was.
C39_Witness ==
    /\ fout.fn = "update_slot_master"
    /\ Len(fin.map) = 2
    /\ fin.slot = SLOT_COUNT - 1
    /\ fout.map[1] = fin.map[1]
    /\ fout.map[2] = [fin.map[2] EXCEPT !.master = fin.addr]
    /\ fout.map[2] # fin.map[2]

====
